---- MODULE Spec2Model ----
(***************************************************************************)
(* Verification model of the block-mirroring job (block/mirror.c) and of   *)
(* the Win32 AIO dispatcher (aio-win32.c).                                 *)
(*                                                                         *)
(* The two subsystems share no state.  Each has its own specification      *)
(* (SpecMirror, SpecAio) over its own variables; the other subsystem's     *)
(* variables are pinned to their initial value.                            *)
(***************************************************************************)
EXTENDS Integers, Sequences, FiniteSets, TLC

(***************************************************************************)
(* Bounds of the model.                                                    *)
(***************************************************************************)
\* sectors per dirty chunk (BDRV_SECTORS_PER_DIRTY_CHUNK, scaled down)
SectorsPerChunk == 2
\* largest source image, in sectors
MaxSectors == 3
\* number of guest writes issued during one run
MaxGuestWrites == 2
\* AioHandler blocks the allocator can hand out at one time
MaxNodes == 3
\* event notifiers (identities) the callers register
MaxNotifiers == 2
\* qemu_aio_wait calls that can be active at once (a callback re-entering it)
MaxDepth == 2
\* calls of buffered_put_buffer during one run
MaxPuts == 2
\* largest size passed to one call of buffered_put_buffer
MaxPutSize == 2
\* largest per-slice transfer limit (xfer_limit)
MaxLimit == 2
\* extra room buffered_put_buffer adds when it grows the buffer (1024, scaled down)
BufferSlack == 1
\* bytes the sink takes before it stops accepting
MaxSinkLen == 5
\* wait objects of one event notifier that are followed
MaxWaitObjects == 2
\* the highest speed a caller asks for, in chunks per slice
MaxSpeed == 1
\* identities (opaque) registered with the dispatcher of aio.c
MaxOpaques == 2
\* emulated requests queued on one handler of aio.c at one time
MaxQueued == 1
\* iterations of the loop of one call of qemu_aio_wait (aio.c) that are
\* followed
MaxIters == 2
\* signals of the I/O readiness counter that are followed
MaxIoReady == 2
\* threads that wait on the event counter
MaxWaiters == 2
\* calls of qemu_evcounter_signal during one run
MaxSignals == 2

(***************************************************************************)
(* Program constants.                                                      *)
(***************************************************************************)
BDRV_SECTOR_SIZE == 512
EIO == 5
EPIPE == 32
\* SLICE_TIME, in ns, and the number of slices in one second
SLICE_TIME == 100000000
SlicesPerSecond == 10
\* "not yet completed", the initial value of a synchronous request's result
NOT_DONE == 2147483647

BLOCK_SIZE == BDRV_SECTOR_SIZE * SectorsPerChunk

NoSector == 0 - 1

\* a size_t value larger than any size the model reaches (a wrapped difference)
Infinity == (MaxPuts * MaxPutSize + MaxLimit + 1) * 1000

VARIABLES
    \* ---- mirror job -------------------------------------------------
    pc,             \* position of the mirror_run coroutine
    cancelled,      \* s->common.cancelled
    synced,         \* local "synced" of mirror_run
    len,            \* s->common.len (bytes), as returned by bdrv_getlength
    sector_num,     \* local "sector_num" of mirror_run
    ret,            \* local "ret" of mirror_run
    offset,         \* s->common.offset
    dirty,          \* dirty bitmap of the source: set of dirty chunks
    tracking,       \* dirty tracking enabled on the source
    target_open,    \* s->target is open (not yet closed and deleted)
    src,            \* contents of the source, per chunk
    tgt,            \* contents of the target, per chunk
    buf,            \* bounce buffer of mirror_populate
    tracked_requests, \* guest requests in flight on the source
    completions,    \* calls of block_job_complete, in order
    disk_sectors,   \* real size of the source image, in sectors
    alloc,          \* sectors of the source allocated above base
    nwrites,        \* guest writes issued so far
    redirtied,      \* history: chunks re-dirtied while their copy was in flight
    cancelAt,       \* history: phase in which cancel was first requested
    scan,           \* history: what the full scan was told and left behind,
                    \* and the bytes copied before the job was synced
    pace,           \* s->common.speed, the rate limiter s->limit, and the
                    \* delay of the last block_job_sleep_ns
    job_turn,       \* parity of the steps of the job where they are counted
                    \* (a job that wakes up and goes back to sleep has taken
                    \* a step); 2 where they are not
    \* ---- AIO dispatcher (aio-win32.c) -------------------------------
    nodes,          \* the heap of AioHandler blocks, by address
    aio_handlers,   \* head of the list of registered handlers (lh_first)
    walking_handlers, \* the walking guard
    stack,          \* the active calls of qemu_aio_wait, innermost last
    signaled,       \* event notifiers whose event object is signaled
    bh_scheduled,   \* a bottom half is scheduled
    aio_ret,        \* what qemu_aio_wait returned, if the last step was its return
    fate,           \* "running", or how the process ended
    uaf,            \* history: a freed AioHandler was read or written
    notify_freed,   \* history: io_notify of a freed AioHandler was invoked
    flush_deleted,  \* the last step invoked io_flush of a tombstoned AioHandler
    flush_pc,       \* qemu_aio_flush: "idle", or "loop" inside its while loop;
                    \* "off" where the callers' requests are not followed
    work,           \* event notifiers whose owner has requests in flight
    inflight,       \* those of work whose completion was not yet signaled
    invoked,        \* the notifier whose io_notify the last step invoked
    notified,       \* history: notifiers invoked by the current qemu_aio_wait
    flush_turn,     \* parity of the dispatcher's steps under qemu_aio_flush
    wait_objects,   \* main loop's wait objects: how many per event notifier
    \* ---- buffered transport (buffered_file.c) -----------------------
    qfb,            \* the QEMUFileBuffered structure (s in the code)
    buffer,         \* the block s->buffer points to, one byte per element
    last_error,     \* the error recorded in s->file (0: none)
    worker,         \* buffered_file_thread: position and locals
    producer,       \* the control thread inside buffered_put_buffer
    closer,         \* the control thread inside buffered_close
    sink,           \* the bytes the sink (s->put_buffer) has accepted, in order
    observed,       \* history of what the transport did
    \* ---- AIO dispatcher, older variant (aio.c) ----------------------
    old_handlers,   \* the list aio_handlers of aio.c, head first
    old_bh,         \* a bottom half is scheduled
    queued,         \* per opaque: emulated requests queued, not yet started
    started,        \* per opaque: requests started and not yet completed
    ioready,        \* the I/O readiness event counter
    opc,            \* where the main thread is: "idle", "wait_cond",
                    \* "wait_ioready", "flush_walk"
    owait,          \* the running call of qemu_aio_wait: its locals
    olast,          \* history: the last call of qemu_aio_wait that returned
    \* ---- event counter, mutex and condition variable (qemu-thread.c)
    ev_ctr,         \* evcounter->ctr
    ev_lock,        \* owner of evcounter->lock: 0 when free, else a thread
    ev_cond,        \* the threads blocked on evcounter->cond
    wpc,            \* per waiter: its position in get / wait / put
    wstate,         \* per waiter: *state
    spc,            \* the signaller's position in qemu_evcounter_signal
    ev_hist         \* history, per waiter: the snapshot taken by get, whether
                    \* a signal was issued since, whether the waiter blocked

mvars == <<pc, cancelled, synced, len, sector_num, ret, offset, dirty,
           tracking, target_open, src, tgt, buf, tracked_requests,
           completions, disk_sectors, alloc, nwrites, redirtied, cancelAt,
           scan, pace, job_turn>>

avars == <<nodes, aio_handlers, walking_handlers, stack, signaled,
           bh_scheduled, aio_ret, fate, uaf, notify_freed, flush_deleted,
           flush_pc, work, inflight, invoked, notified, flush_turn,
           wait_objects>>

bvars == <<qfb, buffer, last_error, worker, producer, closer, sink, observed>>

ovars == <<old_handlers, old_bh, queued, started, ioready, opc, owait, olast>>

evars == <<ev_ctr, ev_lock, ev_cond, wpc, wstate, spc, ev_hist>>

vars == <<mvars, avars, bvars, ovars, evars>>

(***************************************************************************)
(* Geometry helpers.                                                       *)
(***************************************************************************)
Min(a, b) == IF a < b THEN a ELSE b

ChunkOf(s) == s \div SectorsPerChunk

\* number of chunks of an image of e sectors
NumChunks(e) == (e + SectorsPerChunk - 1) \div SectorsPerChunk

MaxChunks == NumChunks(MaxSectors)

Chunks == 0 .. (MaxChunks - 1)

\* end = s->common.len >> BDRV_SECTOR_BITS
End(l) == l \div BDRV_SECTOR_SIZE

(***************************************************************************)
(* The world of the mirror job as one record, so that the straight-line    *)
(* code between two yields of the coroutine composes as functions.         *)
(***************************************************************************)
World ==
    [pc |-> pc, cancelled |-> cancelled, synced |-> synced, len |-> len,
     sector_num |-> sector_num, ret |-> ret, offset |-> offset,
     dirty |-> dirty, tracking |-> tracking, target_open |-> target_open,
     src |-> src, tgt |-> tgt, buf |-> buf,
     tracked_requests |-> tracked_requests, completions |-> completions,
     redirtied |-> redirtied, scan |-> scan, pace |-> pace]

SetWorld(w) ==
    /\ pc' = w.pc
    /\ cancelled' = w.cancelled
    /\ synced' = w.synced
    /\ len' = w.len
    /\ sector_num' = w.sector_num
    /\ ret' = w.ret
    /\ offset' = w.offset
    /\ dirty' = w.dirty
    /\ tracking' = w.tracking
    /\ target_open' = w.target_open
    /\ src' = w.src
    /\ tgt' = w.tgt
    /\ buf' = w.buf
    /\ tracked_requests' = w.tracked_requests
    /\ completions' = w.completions
    /\ redirtied' = w.redirtied
    /\ scan' = w.scan
    /\ pace' = w.pace

(***************************************************************************)
(* Collaborators of the job (block layer, block-job layer).                *)
(***************************************************************************)
\* block_job_complete(job, r): one completion signal.  The record keeps what
\* the receiver of the signal can observe at that moment; cnt, reqs,
\* identical and redirtied are those of "pre", the world on which the job
\* took the decision to finish.
block_job_complete(w, r, pre) ==
    [w EXCEPT !.completions =
        Append(@, [ret |-> r,
                   cancelled |-> w.cancelled,
                   tracking |-> w.tracking,
                   target_open |-> w.target_open,
                   cnt |-> Cardinality(pre.dirty),
                   reqs |-> Cardinality(pre.tracked_requests),
                   identical |-> (pre.src = pre.tgt),
                   redirtied |-> pre.redirtied])]

\* bdrv_get_next_dirty(bs, sector): the first dirty chunk that starts after
\* sector, wrapping around to the lowest dirty chunk.
bdrv_get_next_dirty(d, sector) ==
    LET after == {c \in d : c * SectorsPerChunk > sector}
        pool == IF after # {} THEN after ELSE d
        c == CHOOSE x \in pool : \A y \in pool : x <= y
    IN c * SectorsPerChunk

\* The source contents bdrv_drain_all can leave behind: every request in
\* flight completes; of the writes to one chunk that have not reached the
\* disk yet, any one may be the last.
DrainOutcomes(s, reqs) ==
    {ds \in [Chunks -> 0 .. (MaxGuestWrites + 2)] :
        \A c \in Chunks :
            LET unlanded == {r \in reqs : r.chunk = c /\ ~r.landed}
            IN IF unlanded = {} THEN ds[c] = s[c]
               ELSE \E r \in unlanded : ds[c] = r.val}

\* bdrv_drain_all(): wait for every request in flight; a completed write has
\* reached the disk and has set its chunk dirty.
bdrv_drain_all(w, ds) ==
    [w EXCEPT !.src = ds,
              !.dirty = IF w.tracking
                        THEN @ \cup {r.chunk : r \in w.tracked_requests}
                        ELSE @,
              !.tracked_requests = {}]

(***************************************************************************)
(* mirror_run, between two yields.                                         *)
(***************************************************************************)
\* immediate_exit: cleanup, then the completion signal.
immediate_exit(w, r) ==
    block_job_complete([w EXCEPT !.tracking = FALSE,
                                 !.dirty = {},
                                 !.target_open = FALSE,
                                 !.ret = r,
                                 !.pc = "done"], r, w)

\* The copy of the next dirty chunk is issued: its dirty mark is cleared
\* first, then mirror_populate starts reading the source.
mirror_issue_copy(w) ==
    LET s == bdrv_get_next_dirty(w.dirty, w.sector_num)
    IN [w EXCEPT !.sector_num = s,
                 !.dirty = @ \ {ChunkOf(s)},
                 !.redirtied = @ \ {ChunkOf(s)},
                 !.pc = "read"]

\* ratelimit_calculate_delay(&s->limit, n) (qemu/ratelimit.h).  A slice that
\* is over is replaced by a new, empty one; the first n units of a slice and
\* those that fit the quota go at once, with delay 0; otherwise they are
\* charged to the next slice and the delay is the rest of the slice (a time
\* in 1 .. SLICE_TIME, represented by SLICE_TIME).
ratelimit_calculate_delay(p, n) ==
    LET dispatched == IF p.slice_over THEN 0 ELSE p.dispatched
    IN IF dispatched = 0 \/ dispatched + n <= p.slice_quota
       THEN [p EXCEPT !.dispatched = dispatched + n, !.slice_over = FALSE,
                      !.delay_ns = 0]
       ELSE [p EXCEPT !.dispatched = n, !.slice_over = FALSE,
                      !.delay_ns = SLICE_TIME]

\* a variant of synced_delay: the idle slice whatever the dirty count
synced_delay_always_idle(cnt) == SLICE_TIME

\* "delay_ns = (cnt == 0 ? SLICE_TIME : 0)"
synced_delay(cnt) == IF cnt = 0 THEN SLICE_TIME ELSE 0

\* the sleep of a synced job that is not cancelled
mirror_synced_sleep(w, cnt) ==
    [w EXCEPT !.pace.delay_ns = synced_delay(cnt), !.pc = "sleep"]

\* progress, pacing decision and sleep of a job that is not synced
mirror_paced_sleep(w, cnt) ==
    [w EXCEPT !.offset = End(w.len) * BDRV_SECTOR_SIZE - cnt * BLOCK_SIZE,
              !.pace = IF w.pace.speed # 0
                       THEN ratelimit_calculate_delay(@, SectorsPerChunk)
                       ELSE [@ EXCEPT !.delay_ns = 0],
              !.pc = "sleep"]

\* mirror_iteration_tail with the line "s->common.cancelled = false" left out
mirror_iteration_tail_keeps_flag(w, ds) ==
    LET w1 == IF w.synced /\ w.cancelled THEN bdrv_drain_all(w, ds) ELSE w
        cnt == Cardinality(w1.dirty)
        w2 == [w1 EXCEPT !.ret = 0]
    IN IF w2.synced
       THEN IF ~w2.cancelled
            THEN mirror_synced_sleep(w2, cnt)
            ELSE IF cnt = 0
                 THEN immediate_exit(w2, 0)
                 ELSE mirror_issue_copy(w2)
       ELSE mirror_paced_sleep(w2, cnt)

\* mirror_iteration_tail without the exit of a synced job that is cancelled:
\* the job sleeps whether it is cancelled or not
mirror_iteration_tail_sleeps_on_cancel(w, ds) ==
    LET cnt == Cardinality(w.dirty)
        w2 == [w EXCEPT !.ret = 0]
    IN IF w2.synced
       THEN mirror_synced_sleep(w2, cnt)
       ELSE mirror_paced_sleep(w2, cnt)

\* The tail of one iteration of the copy loop, after the copy (if any).
mirror_iteration_tail(w, ds) ==
    LET w1 == IF w.synced /\ w.cancelled THEN bdrv_drain_all(w, ds) ELSE w
        cnt == Cardinality(w1.dirty)
        w2 == [w1 EXCEPT !.ret = 0]
    IN IF w2.synced
       THEN IF ~w2.cancelled
            THEN mirror_synced_sleep(w2, cnt)
            ELSE IF cnt = 0
                 THEN immediate_exit([w2 EXCEPT !.cancelled = FALSE], 0)
                 ELSE mirror_issue_copy(w2)
       ELSE mirror_paced_sleep(w2, cnt)

\* The head of one iteration of the copy loop.
mirror_iteration(w, ds) ==
    LET w1 == IF w.dirty = {}
              THEN [w EXCEPT !.synced = TRUE,
                             !.offset = End(w.len) * BDRV_SECTOR_SIZE]
              ELSE w
    IN IF w1.dirty # {}
       THEN mirror_issue_copy(w1)
       ELSE mirror_iteration_tail(w1, ds)

\* What follows the scan loop: the error report of a failed scan, and then,
\* in every case, the copy loop.
mirror_after_scan(w, ds) ==
    LET w1 == IF w.ret < 0 THEN block_job_complete(w, w.ret, w) ELSE w
    IN mirror_iteration([w1 EXCEPT !.sector_num = NoSector,
                                   !.scan.finished = TRUE,
                                   !.scan.dirty = w.dirty], ds)

(***************************************************************************)
(* The allocation query of the full scan.                                  *)
(***************************************************************************)
IsAllocated(s) == s \in alloc /\ s < disk_sectors

\* the sectors s .. s+n-1 all have the allocation status of s
SameStatus(s, n) == \A k \in s .. (s + n - 1) : IsAllocated(k) = IsAllocated(s)

\* bdrv_co_is_allocated_above(bs, base, s, nb, &n): the answers it can give,
\* as pairs <<ret, n>>: an error, or the status of s with a span of sectors
\* of that status.
AllocationAnswers(s, nb) ==
    {<<0 - EIO, 0>>} \cup
    {<<IF IsAllocated(s) THEN 1 ELSE 0, n>> : n \in {k \in 1 .. nb : SameStatus(s, k)}}

(***************************************************************************)
(* Initial state: the job does not exist yet.  The source image has any    *)
(* size up to MaxSectors and any allocation pattern; an allocated chunk    *)
(* holds data 1, an unallocated one reads as 0, like the fresh target.     *)
(***************************************************************************)
MirrorInit ==
    /\ src = [c \in Chunks |->
                IF \E s \in alloc : ChunkOf(s) = c THEN 1 ELSE 0]
    /\ tgt = [c \in Chunks |-> 0]
    /\ buf = 0
    /\ pc = "init"
    /\ cancelled = FALSE
    /\ synced = FALSE
    /\ len = 0
    /\ sector_num = 0
    /\ ret = 0
    /\ offset = 0
    /\ dirty = {}
    /\ tracking = FALSE
    /\ target_open = FALSE
    /\ tracked_requests = {}
    /\ completions = << >>
    /\ nwrites = 0
    /\ redirtied = {}
    /\ cancelAt = [req |-> FALSE, synced |-> FALSE, cnt |-> 0, reqs |-> 0]
    /\ scan = [reported |-> {}, finished |-> FALSE, dirty |-> {},
               copied |-> 0]
    /\ pace = [speed |-> 0, slice_quota |-> 0, dispatched |-> 0,
               slice_over |-> FALSE, delay_ns |-> 0, errp |-> "none"]

(***************************************************************************)
(* The AIO dispatcher before any registration: the heap holds no           *)
(* AioHandler, the list is empty and no qemu_aio_wait is active.           *)
(***************************************************************************)
NULL == 0

Slots == 1 .. MaxNodes

Notifiers == 1 .. MaxNotifiers

\* the io_notify callbacks callers register
Callbacks == {1}

\* the io_flush callbacks callers register
FlushCallbacks == {1}

\* a block of memory that never held an AioHandler
FreshNode ==
    [st |-> "unused", e |-> NULL, io_notify |-> NULL, io_flush |-> NULL,
     deleted |-> 0, next |-> NULL, prev |-> NULL]

AioInit ==
    /\ nodes = [n \in Slots |-> FreshNode]
    /\ aio_handlers = NULL
    /\ walking_handlers = 0
    /\ stack = << >>
    /\ signaled = {}
    /\ bh_scheduled = FALSE
    /\ aio_ret = "none"
    /\ fate = "running"
    /\ uaf = FALSE
    /\ notify_freed = FALSE
    /\ flush_deleted = FALSE
    /\ work = {}
    /\ inflight = {}
    /\ wait_objects = [e \in Notifiers |-> 0]
    /\ invoked = NULL
    /\ notified = {}
    /\ flush_turn = 0

(***************************************************************************)
(* Buffered transport (buffered_file.c): state at the return of            *)
(* qemu_fopen_ops_buffered.  Bytes are numbered in the order the producer  *)
(* writes them (1, 2, ...); 0 is a byte of the block never written.        *)
(***************************************************************************)
XferLimits == 0 .. MaxLimit

\* size_t subtraction: a negative difference wraps to a huge value
SizeDiff(a, b) == IF a >= b THEN a - b ELSE Infinity

qemu_fopen_ops_buffered(limit) ==
    [closed |-> 0, xfer_limit |-> limit, buffer_size |-> 0,
     buffer_offset |-> 0, buffer_capacity |-> 0, bh |-> TRUE,
     freed |-> FALSE, buffer_freed |-> FALSE]

BufferedInit(limit) ==
    /\ qfb = qemu_fopen_ops_buffered(limit)
    /\ buffer = << >>
    /\ last_error = 0
    /\ worker = [pc |-> "none", bytes_xfer |-> 0, expire_set |-> FALSE,
                 len |-> 0, total |-> 0, ret |-> 0]
    /\ producer = [pc |-> "idle", at |-> 0, size |-> 0]
    /\ closer = "opening"
    /\ sink = << >>
    /\ observed = [puts |-> 0, written |-> 0, accepted |-> 0,
                   close_calls |-> 0, sink_at_close |-> 0,
                   beyond |-> FALSE, raced |-> FALSE, late |-> FALSE,
                   threads |-> 0, ready_by |-> {}, ub |-> "no"]

\* qemu_evcounter_init: the counter is 0, the lock is free, nobody waits
Waiters == 1 .. MaxWaiters

EvCounterInit ==
    /\ ev_ctr = 0
    /\ ev_lock = 0
    /\ ev_cond = {}
    /\ wpc = [w \in Waiters |-> "idle"]
    /\ wstate = [w \in Waiters |-> 0]
    /\ spc = "idle"
    /\ ev_hist = [w \in Waiters |->
                    [snap |-> 0, signalled |-> FALSE, slept |-> FALSE]]

\* aio.c: the list is empty, nothing is queued, no call is running
Opaques == 1 .. MaxOpaques

NoWait == [result |-> "none", async_ret |-> NOT_DONE, state |-> 0,
           iters |-> 0, in_flush |-> FALSE]

OldAioInit ==
    /\ old_handlers = << >>
    /\ old_bh = FALSE
    /\ queued = [o \in Opaques |-> 0]
    /\ started = [o \in Opaques |-> 0]
    /\ ioready = 0
    /\ opc = "idle"
    /\ owait = NoWait
    /\ olast = [returned |-> FALSE, result |-> "none", iters |-> 0,
                in_flush |-> FALSE]

InitMirror ==
    /\ disk_sectors \in 0 .. MaxSectors
    /\ alloc \in SUBSET (0 .. (disk_sectors - 1))
    /\ MirrorInit
    /\ job_turn = 2
    /\ AioInit
    /\ flush_pc = "off"
    /\ BufferedInit(1)
    /\ OldAioInit
    /\ EvCounterInit

(***************************************************************************)
(* mirror_start, which enters the coroutine: mirror_run up to its first    *)
(* yield.                                                                  *)
(***************************************************************************)
mirror_run_entry(w, l, ds) ==
    IF w.cancelled
    THEN immediate_exit(w, 0)
    ELSE LET w1 == [w EXCEPT !.len = l]
         IN IF l < 0
            THEN block_job_complete([w1 EXCEPT !.pc = "done"], l, w1)
            ELSE IF 0 < End(l)
                 THEN [w1 EXCEPT !.sector_num = 0, !.pc = "scan"]
                 ELSE mirror_after_scan([w1 EXCEPT !.sector_num = 0], ds)

mirror_start(openOk, lenOk) ==
    /\ pc = "init"
    /\ IF ~openOk
       THEN /\ pc' = "open_failed"
            /\ UNCHANGED <<cancelled, synced, len, sector_num, ret, offset,
                           dirty, tracking, target_open, src, tgt, buf,
                           tracked_requests, completions, redirtied,
                           scan, pace>>
       ELSE LET w == [World EXCEPT !.target_open = TRUE, !.tracking = TRUE]
                l == IF lenOk THEN disk_sectors * BDRV_SECTOR_SIZE ELSE 0 - EIO
            IN SetWorld(mirror_run_entry(w, l, src))
    /\ UNCHANGED <<disk_sectors, alloc, nwrites, cancelAt, job_turn>>
    /\ UNCHANGED <<avars, bvars, ovars, evars>>

(***************************************************************************)
(* One allocation query of the full scan returns.                          *)
(***************************************************************************)
mirror_scan_step(w, r, n, ds) ==
    LET next == (ChunkOf(w.sector_num) + 1) * SectorsPerChunk
        w1 == IF r < 0
              THEN [w EXCEPT !.ret = r]
              ELSE IF r = 1
                   THEN [w EXCEPT !.ret = r,
                                  !.scan.reported =
                                      @ \cup {ChunkOf(w.sector_num)},
                                  !.dirty = IF w.tracking
                                            THEN @ \cup {ChunkOf(k) :
                                                 k \in w.sector_num .. (w.sector_num + n - 1)}
                                            ELSE @,
                                  !.sector_num = next]
                   ELSE [w EXCEPT !.ret = r, !.sector_num = @ + n]
    IN IF r >= 0 /\ w1.sector_num < End(w.len)
       THEN w1
       ELSE mirror_after_scan(w1, ds)

ScanStep ==
    /\ pc = "scan"
    /\ LET next == (ChunkOf(sector_num) + 1) * SectorsPerChunk
       IN \E a \in AllocationAnswers(sector_num, next - sector_num) :
          \E ds \in DrainOutcomes(src, tracked_requests) :
             SetWorld(mirror_scan_step(World, a[1], a[2], ds))
    /\ UNCHANGED <<disk_sectors, alloc, nwrites, cancelAt>>
    /\ job_turn' = IF job_turn = 2 THEN 2 ELSE 1 - job_turn
    /\ UNCHANGED <<avars, bvars, ovars, evars>>

(***************************************************************************)
(* mirror_populate: the read of the source and the write to the target.    *)
(***************************************************************************)
mirror_read_done(w, ok) ==
    IF ~ok
    THEN immediate_exit(w, 0 - EIO)
    ELSE [w EXCEPT !.buf = w.src[ChunkOf(w.sector_num)], !.pc = "write"]

ReadDone ==
    /\ pc = "read"
    /\ \E ok \in BOOLEAN : SetWorld(mirror_read_done(World, ok))
    /\ UNCHANGED <<disk_sectors, alloc, nwrites, cancelAt>>
    /\ job_turn' = IF job_turn = 2 THEN 2 ELSE 1 - job_turn
    /\ UNCHANGED <<avars, bvars, ovars, evars>>

\* "nb_sectors = MIN(BDRV_SECTORS_PER_DIRTY_CHUNK, end - sector_num)"
mirror_copy_sectors_unclipped(w) == SectorsPerChunk

mirror_copy_sectors(w) ==
    Min(SectorsPerChunk, End(w.len) - w.sector_num)

\* the copy of one chunk is complete: the target holds the buffer
mirror_copied(w) ==
    [w EXCEPT !.tgt[ChunkOf(w.sector_num)] = w.buf,
              !.scan.copied = IF w.synced THEN @
                              ELSE @ + mirror_copy_sectors(w)
                                         * BDRV_SECTOR_SIZE]

\* mirror_write_done with the dirty mark of the chunk cleared after the copy
mirror_write_done_resets_after(w, ok, ds) ==
    IF ~ok
    THEN immediate_exit(w, 0 - EIO)
    ELSE mirror_iteration_tail(
             [mirror_copied(w) EXCEPT !.dirty = @ \ {ChunkOf(w.sector_num)}],
             ds)

mirror_write_done(w, ok, ds) ==
    IF ~ok
    THEN immediate_exit(w, 0 - EIO)
    ELSE mirror_iteration_tail(mirror_copied(w), ds)

WriteDone ==
    /\ pc = "write"
    /\ \E ok \in BOOLEAN :
       \E ds \in DrainOutcomes(src, tracked_requests) :
          SetWorld(mirror_write_done(World, ok, ds))
    /\ UNCHANGED <<disk_sectors, alloc, nwrites, cancelAt>>
    /\ job_turn' = IF job_turn = 2 THEN 2 ELSE 1 - job_turn
    /\ UNCHANGED <<avars, bvars, ovars, evars>>

(***************************************************************************)
(* block_job_sleep_ns returns.                                             *)
(***************************************************************************)
\* mirror_wake without the cancel check that follows the sleep
mirror_wake_ignores_cancel(w, ds) ==
    mirror_iteration(w, ds)

mirror_wake(w, ds) ==
    IF ~w.synced /\ w.cancelled
    THEN immediate_exit(w, w.ret)
    ELSE mirror_iteration(w, ds)

Wake ==
    /\ pc = "sleep"
    /\ \E ds \in DrainOutcomes(src, tracked_requests) :
          SetWorld(mirror_wake(World, ds))
    /\ UNCHANGED <<disk_sectors, alloc, nwrites, cancelAt>>
    /\ job_turn' = IF job_turn = 2 THEN 2 ELSE 1 - job_turn
    /\ UNCHANGED <<avars, bvars, ovars, evars>>

(***************************************************************************)
(* The environment of the job: the cancel request and the guest's writes.  *)
(***************************************************************************)
JobRunning == pc \in {"scan", "read", "write", "sleep"}

block_job_cancel ==
    /\ JobRunning
    /\ completions = << >>
    /\ ~cancelled
    /\ cancelled' = TRUE
    /\ cancelAt' = [req |-> TRUE, synced |-> synced,
                    cnt |-> Cardinality(dirty),
                    reqs |-> Cardinality(tracked_requests)]
    /\ UNCHANGED <<pc, synced, len, sector_num, ret, offset, dirty, tracking,
                   target_open, src, tgt, buf, tracked_requests, completions,
                   disk_sectors, alloc, nwrites, redirtied, scan, pace>>
    /\ UNCHANGED <<job_turn, avars, bvars, ovars, evars>>

GuestWriteStart ==
    /\ JobRunning
    /\ nwrites < MaxGuestWrites
    /\ \E c \in 0 .. (NumChunks(disk_sectors) - 1) :
          tracked_requests' = tracked_requests \cup
              {[id |-> nwrites + 1, chunk |-> c, val |-> nwrites + 2,
                landed |-> FALSE]}
    /\ nwrites' = nwrites + 1
    /\ UNCHANGED <<pc, cancelled, synced, len, sector_num, ret, offset, dirty,
                   tracking, target_open, src, tgt, buf, completions,
                   disk_sectors, alloc, redirtied, cancelAt, scan, pace>>
    /\ UNCHANGED <<job_turn, avars, bvars, ovars, evars>>

\* the data of a write in flight reaches the disk
GuestWriteLand ==
    /\ JobRunning
    /\ \E r \in tracked_requests :
          /\ ~r.landed
          /\ src' = [src EXCEPT ![r.chunk] = r.val]
          /\ alloc' = alloc \cup {s \in 0 .. (disk_sectors - 1) :
                                      ChunkOf(s) = r.chunk}
          /\ tracked_requests' = (tracked_requests \ {r})
                                 \cup {[r EXCEPT !.landed = TRUE]}
    /\ UNCHANGED <<pc, cancelled, synced, len, sector_num, ret, offset, dirty,
                   tracking, target_open, tgt, buf, completions,
                   disk_sectors, nwrites, redirtied, cancelAt, scan, pace>>
    /\ UNCHANGED <<job_turn, avars, bvars, ovars, evars>>

\* a write completes: it sets its chunk dirty and leaves the tracked requests
GuestWriteComplete ==
    /\ JobRunning
    /\ \E r \in tracked_requests :
          /\ r.landed
          /\ dirty' = IF tracking THEN dirty \cup {r.chunk} ELSE dirty
          /\ tracked_requests' = tracked_requests \ {r}
          /\ redirtied' = IF pc \in {"read", "write"}
                             /\ ChunkOf(sector_num) = r.chunk
                          THEN redirtied \cup {r.chunk}
                          ELSE redirtied
    /\ UNCHANGED <<pc, cancelled, synced, len, sector_num, ret, offset,
                   tracking, target_open, src, tgt, buf, completions,
                   disk_sectors, alloc, nwrites, cancelAt, scan, pace>>
    /\ UNCHANGED <<job_turn, avars, bvars, ovars, evars>>

(***************************************************************************)
(* The speed of the job.                                                   *)
(***************************************************************************)
\* the speeds a caller asks for, in bytes per second: a negative one, none,
\* and 1 .. MaxSpeed chunks per slice
Speeds ==
    {0 - 1, 0} \cup {k * SlicesPerSecond * BLOCK_SIZE : k \in 1 .. MaxSpeed}

\* ratelimit_set_speed(&s->limit, speed, SLICE_TIME) (qemu/ratelimit.h): the
\* quota of one slice, in the units of speed
ratelimit_set_speed(p, speed) ==
    [p EXCEPT !.slice_quota = speed \div SlicesPerSecond]

\* a variant of mirror_set_speed without the test of the sign
mirror_set_speed_unchecked(p, speed) ==
    [ratelimit_set_speed(p, speed \div BDRV_SECTOR_SIZE) EXCEPT
        !.errp = "none"]

mirror_set_speed(p, speed) ==
    IF speed < 0
    THEN [p EXCEPT !.errp = "QERR_INVALID_PARAMETER"]
    ELSE [ratelimit_set_speed(p, speed \div BDRV_SECTOR_SIZE) EXCEPT
            !.errp = "none"]

\* block_job_set_speed(job, speed, errp) (blockjob.c): the set_speed
\* callback of the job type, and job->speed = speed unless it set an error
block_job_set_speed(speed) ==
    /\ JobRunning
    /\ LET p == mirror_set_speed(pace, speed)
       IN pace' = [p EXCEPT !.speed = IF p.errp = "none" THEN speed ELSE @]
    /\ UNCHANGED <<pc, cancelled, synced, len, sector_num, ret, offset, dirty,
                   tracking, target_open, src, tgt, buf, tracked_requests,
                   completions, disk_sectors, alloc, nwrites, redirtied,
                   cancelAt, scan>>
    /\ UNCHANGED <<job_turn, avars, bvars, ovars, evars>>

\* the clock passes the end of the rate limiter's current slice (of a slice
\* with nothing dispatched the end changes nothing: the next call of
\* ratelimit_calculate_delay starts from 0 either way)
slice_ends ==
    /\ JobRunning
    /\ pace.speed # 0
    /\ pace.dispatched > 0
    /\ ~pace.slice_over
    /\ pace' = [pace EXCEPT !.slice_over = TRUE]
    /\ UNCHANGED <<pc, cancelled, synced, len, sector_num, ret, offset, dirty,
                   tracking, target_open, src, tgt, buf, tracked_requests,
                   completions, disk_sectors, alloc, nwrites, redirtied,
                   cancelAt, scan>>
    /\ UNCHANGED <<job_turn, avars, bvars, ovars, evars>>

NextMirror ==
    \/ \E openOk \in BOOLEAN, lenOk \in BOOLEAN : mirror_start(openOk, lenOk)
    \/ ScanStep
    \/ ReadDone
    \/ WriteDone
    \/ Wake
    \/ block_job_cancel
    \/ GuestWriteStart
    \/ GuestWriteLand
    \/ GuestWriteComplete

SpecMirror == InitMirror /\ [][NextMirror]_vars

\* the job with a caller that changes its speed
NextMirrorPaced ==
    \/ NextMirror
    \/ \E speed \in Speeds : block_job_set_speed(speed)
    \/ slice_ends

SpecMirrorPaced == InitMirror /\ [][NextMirrorPaced]_vars

(***************************************************************************)
(* Outcomes of a completion signal.                                        *)
(***************************************************************************)
Signals == {completions[i] : i \in 1 .. Len(completions)}

\* "completed": result 0 and the cancelled flag cleared
IsCompleted(k) == k.ret = 0 /\ ~k.cancelled

\* "cancelled": result 0 with the cancelled flag still set
IsCancelled(k) == k.ret = 0 /\ k.cancelled

(***************************************************************************)
(* C1: block_job_complete is called exactly once per run of the job: never *)
(* twice, and exactly once when the coroutine has returned.                *)
(***************************************************************************)
C1_CompleteExactlyOnce ==
    /\ Len(completions) <= 1
    /\ pc = "done" => Len(completions) = 1

(***************************************************************************)
(* C2: a successful completion (result 0, not cancelled) is delivered only *)
(* with zero dirty chunks, no guest request in flight and a target         *)
(* identical to the source.                                                *)
(***************************************************************************)
C2_SuccessMeansConverged ==
    \A k \in Signals :
        IsCompleted(k) => k.cnt = 0 /\ k.reqs = 0 /\ k.identical

(***************************************************************************)
(* C7: a chunk re-dirtied by a guest write that completes while the copy   *)
(* of that chunk is in flight is still dirty when the copy completes, and  *)
(* is copied again before the job reports success.                         *)
(***************************************************************************)
C7_RedirtiedIsRecopied ==
    /\ JobRunning => redirtied \subseteq dirty
    /\ \A k \in Signals : IsCompleted(k) => k.redirtied = {}

\* a guest write completed while the copy of its chunk was in flight, the
\* copy has completed and the chunk is dirty, waiting to be copied again
C7_Witness ==
    /\ pc = "sleep"
    /\ redirtied # {}
    /\ redirtied \subseteq dirty

(***************************************************************************)
(* C8: a scheduling turn of the job that finds cancel requested, the job   *)
(* synced, zero dirty chunks and no I/O in flight ends the job with        *)
(* outcome "completed" (cancelled flag cleared, result 0).                 *)
(***************************************************************************)
C8_CancelSyncedIdleCompletes ==
    [][(/\ pc = "sleep"
        /\ synced /\ cancelled
        /\ dirty = {} /\ tracked_requests = {}
        /\ pc' # pc)
       => (/\ pc' = "done"
           /\ ~cancelled'
           /\ Len(completions') = Len(completions) + 1
           /\ IsCompleted(completions'[Len(completions')]))]_vars

\* cancel was requested while the job was synced and idle, and the job ended
\* with outcome "completed"
C8_Witness ==
    /\ cancelAt.req /\ cancelAt.synced /\ cancelAt.cnt = 0 /\ cancelAt.reqs = 0
    /\ pc = "done"
    /\ Len(completions) = 1
    /\ IsCompleted(completions[1])

(***************************************************************************)
(* C9 as claimed: a cancel request made while a chunk is dirty ends the    *)
(* job with outcome "cancelled", and "completed" is reached only from a    *)
(* cancel request made while synced with zero dirty chunks.                *)
(***************************************************************************)
C9_Original ==
    (pc = "done" /\ Len(completions) = 1) =>
        LET k == completions[1]
        IN /\ (k.ret = 0 /\ cancelAt.req /\ cancelAt.cnt > 0) => IsCancelled(k)
           /\ IsCompleted(k) =>
                 (cancelAt.req /\ cancelAt.synced /\ cancelAt.cnt = 0)

(***************************************************************************)
(* C9 amended: a signal with result 0 is "cancelled" when cancel was       *)
(* requested before the job was synced while a chunk was dirty; it is      *)
(* "completed" when cancel was requested once the job was synced, with or  *)
(* without dirty chunks; and "completed" is reached only after a cancel    *)
(* request, with zero dirty chunks at the moment the job finishes.         *)
(***************************************************************************)
C9_CancelOutcomeByPhase ==
    \A k \in Signals :
        /\ (k.ret = 0 /\ cancelAt.req /\ ~cancelAt.synced /\ cancelAt.cnt > 0)
              => IsCancelled(k)
        /\ (k.ret = 0 /\ cancelAt.req /\ cancelAt.synced) => IsCompleted(k)
        /\ IsCompleted(k) => (cancelAt.req /\ k.cnt = 0)

\* cancel was requested while the job was synced with a dirty chunk, and the
\* job ended with outcome "completed"
C9_Witness ==
    /\ cancelAt.req /\ cancelAt.synced /\ cancelAt.cnt > 0
    /\ pc = "done"
    /\ \E k \in Signals : IsCompleted(k)

(***************************************************************************)
(* C10: every completion signal is delivered with dirty tracking disabled  *)
(* and the target closed.                                                  *)
(***************************************************************************)
C10_CleanupBeforeSignal ==
    \A k \in Signals : ~k.tracking /\ ~k.target_open

(***************************************************************************)
(* The AIO dispatcher of aio-win32.c.                                      *)
(*                                                                         *)
(* The list of handlers is modelled with its pointers: a node's next is    *)
(* the address of its successor, its prev (le_prev) names the next field   *)
(* that points to it, NULL standing for the list head.  g_free leaves the  *)
(* contents of a block in place and g_malloc0 may hand the block out       *)
(* again, so a read through a dangling pointer sees what the block holds   *)
(* at that time; the process may also abort at such a read.                *)
(*                                                                         *)
(* The control thread runs the dispatcher's own code without interruption: *)
(* a step of the model runs from one point where foreign code has control  *)
(* (the caller at rest, an io_notify callback, the blocking wait) to the   *)
(* next.  A frame of the stack is one active call of qemu_aio_wait:        *)
(*   pc       "wait" (at WaitForMultipleObjects) or "callback" (inside     *)
(*            io_notify of node, during the dispatch walk)                 *)
(*   node     the cursor of the dispatch walk                              *)
(*   events   the array of handles to wait for, as notifiers               *)
(*   ret, timeout   the locals of that name                                *)
(*   dangling history: the block node points to was freed under the walk   *)
(***************************************************************************)
Top == stack[Len(stack)]

AtRest == stack = << >>

InCallback == stack # << >> /\ Top.pc = "callback"

\* The behaviour of the program is defined up to and including the first step
\* that reads freed memory; the model shows the outcomes of that step and
\* follows the program no further.
Defined == fate = "running" /\ ~uaf

\* the control thread is in code outside the dispatcher: at rest, or inside
\* an io_notify callback
ControlFree == Defined /\ (AtRest \/ InCallback)

\* QLIST_REMOVE(n, node), on heap ns with list head h: <<heap, head>>
QLIST_REMOVE(ns, h, n) ==
    LET nx == ns[n].next
        pv == ns[n].prev
        ns1 == IF nx # NULL THEN [ns EXCEPT ![nx].prev = pv] ELSE ns
    IN IF pv = NULL
       THEN <<ns1, nx>>
       ELSE <<[ns1 EXCEPT ![pv].next = nx], h>>

\* QLIST_INSERT_HEAD(&aio_handlers, n, node): <<heap, head>>
QLIST_INSERT_HEAD(ns, h, n) ==
    LET ns1 == IF h # NULL THEN [ns EXCEPT ![h].prev = n] ELSE ns
    IN <<[ns1 EXCEPT ![n].next = h, ![n].prev = NULL], n>>

\* g_free(n)
g_free(ns, n) == [ns EXCEPT ![n].st = "freed"]

\* the frames of st whose cursor is in the set freed now hold a dangling
\* pointer
MarkDangling(st, freed) ==
    [i \in DOMAIN st |->
        IF st[i].node \in freed THEN [st[i] EXCEPT !.dangling = TRUE]
        ELSE st[i]]

\* The blocks some pointer of the program leads to: from the list head and
\* the cursors of the active walks, through next and prev.
RECURSIVE ReachableFrom(_, _, _)
ReachableFrom(ns, R, k) ==
    IF k = 0 THEN R
    ELSE ReachableFrom(ns,
             R \cup (({ns[n].next : n \in R} \cup {ns[n].prev : n \in R})
                     \ {NULL}),
             k - 1)

\* A freed block that no pointer leads to can never be read before g_malloc0
\* zeroes it: the heap with those blocks written as fresh memory.
Forget(ns, h, st) ==
    LET roots == ({h} \cup {st[i].node : i \in DOMAIN st}) \ {NULL}
        R == ReachableFrom(ns, roots, MaxNodes)
    IN [n \in Slots |->
          IF ns[n].st = "freed" /\ n \notin R THEN FreshNode ELSE ns[n]]

\* acc, then the blocks from n along the next pointers, up to NULL or to a
\* block that is in the sequence already
RECURSIVE Chain(_, _, _)
Chain(ns, n, acc) ==
    IF n = NULL \/ \E i \in DOMAIN acc : acc[i] = n THEN acc
    ELSE Chain(ns, ns[n].next, Append(acc, n))

\* acc, then the blocks the cursors of the frames st[i], st[i+1], ... lead to
RECURSIVE CursorChains(_, _, _, _)
CursorChains(ns, st, i, acc) ==
    IF i > Len(st) THEN acc
    ELSE CursorChains(ns, st, i + 1, Chain(ns, st[i].node, acc))

\* acc, then the blocks of S by address
RECURSIVE ByAddress(_, _)
ByAddress(S, acc) ==
    IF S = {} THEN acc
    ELSE LET m == CHOOSE x \in S : \A y \in S : x <= y
         IN ByAddress(S \ {m}, Append(acc, m))

(***************************************************************************)
(* The addresses of the blocks are of no consequence to the program, which *)
(* only follows pointers.  Settle gives the state its one representative:  *)
(* the blocks of the list come first, in list order, then the blocks that  *)
(* the cursors of the active walks lead to, then the other blocks in use,  *)
(* then the fresh memory; all pointers are renamed accordingly.            *)
(***************************************************************************)
Renamed(ns, h, st, at) ==
    [nodes |-> [i \in Slots |->
                  LET n == CHOOSE m \in Slots : at[m] = i
                  IN [ns[n] EXCEPT !.next = at[@], !.prev = at[@]]],
     head |-> at[h],
     stack |-> [i \in DOMAIN st |-> [st[i] EXCEPT !.node = at[@]]]]

InOrder(ns, h, st, order) ==
    Renamed(ns, h, st,
            [n \in Slots \cup {NULL} |->
                IF n = NULL THEN NULL
                ELSE CHOOSE i \in Slots : order[i] = n])

Linked(ns, h, st, linked) ==
    LET inlist == {linked[i] : i \in DOMAIN linked}
        used == {n \in Slots : ns[n].st # "unused"} \ inlist
    IN InOrder(ns, h, st,
               ByAddress(Slots \ (inlist \cup used),
                         ByAddress(used, linked)))

Forgotten(ns, h, st) ==
    Linked(ns, h, st, CursorChains(ns, st, 1, Chain(ns, h, << >>)))

Settle(ns, h, st) == Forgotten(Forget(ns, h, st), h, st)

\* the blocks linked into the list that starts at h
RECURSIVE ListNodes(_, _, _)
ListNodes(ns, h, fuel) ==
    IF h = NULL \/ fuel = 0 THEN {}
    ELSE {h} \cup ListNodes(ns, ns[h].next, fuel - 1)

\* The QLIST_FOREACH of qemu_aio_set_event_notifier, from node n: the first
\* node with identity e that is not marked deleted, NULL if there is none,
\* -1 if the walk never ends (a list made cyclic by a stale unlink).
RECURSIVE FindHandler(_, _, _, _)
FindHandler(ns, n, e, fuel) ==
    IF n = NULL THEN NULL
    ELSE IF fuel = 0 THEN 0 - 1
    ELSE IF ns[n].e = e /\ ns[n].deleted = 0 THEN n
    ELSE FindHandler(ns, ns[n].next, e, fuel - 1)

\* "QLIST_FOREACH(node, &aio_handlers, node) { if (node->e == e &&
\* !node->deleted) break; }"
aio_find_handler(e) ==
    FindHandler(nodes, aio_handlers, e, MaxNodes + 1)

\* the blocks g_malloc0 can return: a freed block, or the first block of
\* fresh memory
Allocatable ==
    {n \in Slots : nodes[n].st = "freed"} \cup
    {n \in Slots : nodes[n].st = "unused"
                   /\ \A m \in Slots : nodes[m].st = "unused" => n <= m}

(***************************************************************************)
(* The callers' side, where it is followed (flush_pc # "off"): work holds  *)
(* the notifiers whose owner has requests in flight.  io_flush of a        *)
(* handler answers whether its notifier is in work, and io_notify          *)
(* completes the requests of its notifier.                                 *)
(***************************************************************************)
Followed == flush_pc # "off"

\* qemu_aio_wait calls that can be active at once
CallDepth == IF Followed THEN 1 ELSE MaxDepth

\* what the io_flush callbacks of the list's handlers can answer
PendingAnswers ==
    LET L == ListNodes(nodes, aio_handlers, MaxNodes)
    IN IF Followed
       THEN {[n \in L |-> IF nodes[n].e \in work THEN 1 ELSE 0]}
       ELSE [L -> {0, 1}]

\* a step of the dispatcher inside a call of qemu_aio_wait
FlushTurned ==
    flush_turn' = IF flush_pc = "loop" THEN 1 - flush_turn ELSE flush_turn

\* the step invoked io_notify of notifier ev (NULL: of none)
Notified(ev) ==
    /\ invoked' = IF Followed THEN ev ELSE NULL
    /\ notified' = IF Followed /\ ev # NULL THEN notified \cup {ev}
                                              ELSE notified
    /\ work' = work \ {ev}
    /\ inflight' = inflight \ {ev}
    /\ UNCHANGED <<flush_pc, wait_objects>>

\* qemu_add_wait_object(handle, func, opaque) (main-loop.c): one more wait
\* object for the handle of e
qemu_add_wait_object(w, e) == [w EXCEPT ![e] = @ + 1]

\* qemu_del_wait_object(handle, func, opaque) (main-loop.c): the first wait
\* object of the handle of e, if any, is removed
qemu_del_wait_object(w, e) == [w EXCEPT ![e] = IF @ > 0 THEN @ - 1 ELSE 0]

(***************************************************************************)
(* qemu_aio_set_event_notifier(e, io_notify, io_flush), called at rest or  *)
(* from inside a callback (while qemu_aio_flush runs, only from inside a   *)
(* callback).                                                              *)
(***************************************************************************)
qemu_aio_set_event_notifier(e, io_notify, io_flush) ==
    /\ ControlFree
    /\ flush_pc = "loop" => InCallback
    /\ (Followed /\ io_notify # NULL) => wait_objects[e] < MaxWaitObjects
    /\ LET node == aio_find_handler(e)
       IN IF node < 0
          THEN /\ fate' = "hung"
               /\ UNCHANGED <<nodes, aio_handlers, stack, wait_objects>>
          ELSE IF io_notify = NULL
          THEN /\ node # NULL
               /\ wait_objects' = IF Followed
                                  THEN qemu_del_wait_object(wait_objects, e)
                                  ELSE wait_objects
               /\ IF walking_handlers # 0
                  THEN /\ nodes' = [nodes EXCEPT ![node].deleted = 1]
                       /\ UNCHANGED <<aio_handlers, stack>>
                  ELSE LET r == QLIST_REMOVE(nodes, aio_handlers, node)
                           s == Settle(g_free(r[1], node), r[2],
                                       MarkDangling(stack, {node}))
                       IN /\ nodes' = s.nodes
                          /\ aio_handlers' = s.head
                          /\ stack' = s.stack
               /\ UNCHANGED fate
          ELSE /\ wait_objects' = IF Followed
                                  THEN qemu_add_wait_object(wait_objects, e)
                                  ELSE wait_objects
               /\ IF node = NULL
                  THEN \E n \in Allocatable :
                          LET zeroed == [nodes EXCEPT
                                            ![n] = [FreshNode EXCEPT
                                                       !.st = "alloc",
                                                       !.e = e]]
                              r == QLIST_INSERT_HEAD(zeroed, aio_handlers, n)
                              s == Settle([r[1] EXCEPT
                                              ![n].io_notify = io_notify,
                                              ![n].io_flush = io_flush],
                                          r[2], stack)
                          IN /\ nodes' = s.nodes
                             /\ aio_handlers' = s.head
                             /\ stack' = s.stack
                  ELSE /\ nodes' = [nodes EXCEPT
                                       ![node].io_notify = io_notify,
                                       ![node].io_flush = io_flush]
                       /\ UNCHANGED <<aio_handlers, stack>>
               /\ UNCHANGED fate
    /\ aio_ret' = "none"
    /\ flush_deleted' = FALSE
    /\ invoked' = NULL
    /\ UNCHANGED <<flush_pc, work, inflight, notified, flush_turn>>
    /\ UNCHANGED <<walking_handlers, signaled, bh_scheduled, uaf, notify_freed>>
    /\ UNCHANGED <<mvars, bvars, ovars, evars>>

(***************************************************************************)
(* The first walk of qemu_aio_wait ("fill fd sets"), from node n, with     *)
(* pending[n] the answer of io_flush of node n.  acc collects the locals   *)
(* busy and events, and what the walk did: uaf (it read a freed block),    *)
(* flush_deleted (it called io_flush of a node marked deleted), hung (it   *)
(* never ends, the list being cyclic).                                     *)
(***************************************************************************)
RECURSIVE aio_fill_walk(_, _, _, _, _)
aio_fill_walk(ns, n, pending, fuel, acc) ==
    IF n = NULL THEN acc
    ELSE IF fuel = 0 THEN [acc EXCEPT !.hung = TRUE]
    ELSE LET flushed == ns[n].io_flush # NULL
             skip == flushed /\ pending[n] = 0
             acc1 == [acc EXCEPT
                        !.uaf = @ \/ ns[n].st # "alloc",
                        !.flush_deleted = @ \/ (flushed /\ ns[n].deleted # 0),
                        !.busy = @ \/ (flushed /\ ~skip),
                        !.events = IF ~skip /\ ns[n].deleted = 0
                                      /\ ns[n].io_notify # NULL
                                   THEN Append(@, ns[n].e)
                                   ELSE @]
         IN aio_fill_walk(ns, ns[n].next, pending, fuel - 1, acc1)

\* "if (!busy) return false"
aio_no_requests(busy) == ~busy

\* Entry of qemu_aio_wait up to its first wait: the bottom halves run and the
\* call returns true if one ran; otherwise the first walk runs under the
\* guard, and the call returns false if no handler reported pending
\* requests.
qemu_aio_wait ==
    /\ ControlFree
    /\ Len(stack) < CallDepth
    /\ IF bh_scheduled
       THEN /\ bh_scheduled' = FALSE
            /\ aio_ret' = "true"
            /\ flush_deleted' = FALSE
            /\ UNCHANGED <<walking_handlers, stack, uaf, fate>>
       ELSE \E pending \in PendingAnswers :
               LET w == aio_fill_walk(nodes, aio_handlers, pending,
                            2 * MaxNodes,
                            [busy |-> FALSE, events |-> << >>, uaf |-> FALSE,
                             flush_deleted |-> FALSE, hung |-> FALSE])
               IN /\ uaf' = (uaf \/ w.uaf)
                  /\ flush_deleted' = w.flush_deleted
                  /\ IF w.hung
                     THEN /\ fate' = "hung"
                          /\ walking_handlers' = 1
                          /\ aio_ret' = "none"
                          /\ UNCHANGED stack
                     ELSE /\ walking_handlers' = 0
                          /\ UNCHANGED fate
                          /\ IF aio_no_requests(w.busy)
                             THEN /\ aio_ret' = "false"
                                  /\ UNCHANGED stack
                             ELSE /\ stack' = Append(stack,
                                        [pc |-> "wait", node |-> NULL,
                                         events |-> w.events, ret |-> 0,
                                         timeout |-> "INFINITE",
                                         dangling |-> FALSE])
                                  /\ aio_ret' = "none"
            /\ UNCHANGED bh_scheduled
    /\ invoked' = NULL
    /\ notified' = IF Followed THEN {} ELSE notified
    /\ flush_pc' = IF flush_pc = "loop" /\ aio_ret' = "false" THEN "idle"
                                                              ELSE flush_pc
    /\ flush_turn' = IF flush_pc' = "loop" THEN 1 - flush_turn ELSE 0
    /\ UNCHANGED <<work, inflight, wait_objects>>
    /\ UNCHANGED <<nodes, aio_handlers, signaled, notify_freed>>
    /\ UNCHANGED <<mvars, bvars, ovars, evars>>

(***************************************************************************)
(* The dispatch walk for the signaled notifier ev, from node n, up to the  *)
(* next io_notify it calls (call = TRUE, node = the node called) or to the *)
(* end of the list.  stale says that the contents of n are read through a  *)
(* pointer to freed memory.  The result also holds the heap and the list   *)
(* head, the blocks freed on the way, and uaf and hung as for the first    *)
(* walk.                                                                   *)
(***************************************************************************)
RECURSIVE aio_dispatch_walk(_, _, _, _, _, _, _)
aio_dispatch_walk(ns, h, n, ev, stale, fuel, acc) ==
    LET here == [acc EXCEPT !.nodes = ns, !.head = h]
    IN IF n = NULL THEN here
       ELSE IF fuel = 0 THEN [here EXCEPT !.hung = TRUE]
       ELSE LET acc1 == [here EXCEPT !.uaf = @ \/ stale]
            IN IF ns[n].deleted = 0 /\ ns[n].e = ev /\ ns[n].io_notify # NULL
               THEN [acc1 EXCEPT !.call = TRUE, !.node = n, !.stale = stale]
               ELSE LET nx == ns[n].next
                        r == IF ns[n].deleted # 0
                             THEN QLIST_REMOVE(ns, h, n)
                             ELSE <<ns, h>>
                        ns1 == IF ns[n].deleted # 0
                               THEN g_free(r[1], n) ELSE ns
                        acc2 == IF ns[n].deleted # 0
                                THEN [acc1 EXCEPT !.freed = @ \cup {n}]
                                ELSE acc1
                    IN aio_dispatch_walk(ns1, r[2], nx, ev,
                                         nx # NULL /\ ns1[nx].st # "alloc",
                                         fuel - 1, acc2)

NoWalk ==
    [nodes |-> nodes, head |-> aio_handlers, call |-> FALSE, node |-> NULL,
     stale |-> FALSE, freed |-> {}, uaf |-> FALSE, hung |-> FALSE]

\* The state after a dispatch walk w of the innermost call f: inside the
\* callback the walk reached, or, the walk over, the guard released and the
\* call back at WaitForMultipleObjects.
AfterWalk(f, w) ==
    /\ uaf' = (uaf \/ w.uaf)
    /\ Notified(IF w.call /\ ~w.hung THEN f.events[f.ret] ELSE NULL)
    /\ FlushTurned
    /\ IF w.hung
       THEN /\ fate' = "hung"
            /\ walking_handlers' = 1
            /\ nodes' = w.nodes
            /\ aio_handlers' = w.head
            /\ stack' = stack
            /\ UNCHANGED notify_freed
       ELSE /\ UNCHANGED fate
            /\ LET f1 == IF w.call
                         THEN [f EXCEPT !.pc = "callback", !.node = w.node,
                                        !.dangling = w.stale]
                         ELSE [f EXCEPT !.pc = "wait", !.node = NULL,
                                        !.ret = 0, !.dangling = FALSE]
                   s == Settle(w.nodes, w.head,
                               MarkDangling(
                                   [stack EXCEPT ![Len(stack)] = f1],
                                   w.freed))
               IN /\ stack' = s.stack
                  /\ nodes' = s.nodes
                  /\ aio_handlers' = s.head
            /\ walking_handlers' = IF w.call THEN 1 ELSE 0
            /\ notify_freed' = (notify_freed \/ (w.call /\ w.stale))

\* the first signaled handle of the array, 0 if none is signaled
FirstSignaled(events) ==
    LET hit == {i \in 1 .. Len(events) : events[i] \in signaled}
    IN IF hit = {} THEN 0 ELSE CHOOSE i \in hit : \A j \in hit : i <= j

\* whether WaitForMultipleObjects can fail (while qemu_aio_flush runs, only
\* for want of events to wait for)
WaitFailures == IF flush_pc = "loop" THEN {FALSE} ELSE BOOLEAN

\* WaitForMultipleObjects returns.  With the index of a signaled event (the
\* event object is reset) the dispatch walk starts under the guard; on a
\* timeout or a failure the call returns true.
aio_wait_returns ==
    /\ Defined
    /\ stack # << >>
    /\ Top.pc = "wait"
    /\ LET f == Top
           i == FirstSignaled(f.events)
       IN \E failed \in WaitFailures :
             IF i # 0 /\ ~failed
             THEN /\ signaled' = signaled \ {f.events[i]}
                  /\ AfterWalk([f EXCEPT !.ret = i, !.timeout = "0"],
                        aio_dispatch_walk(nodes, aio_handlers, aio_handlers,
                            f.events[i],
                            aio_handlers # NULL
                               /\ nodes[aio_handlers].st # "alloc",
                            2 * MaxNodes, NoWalk))
                  /\ aio_ret' = "none"
             ELSE /\ failed \/ f.timeout = "0" \/ Len(f.events) = 0
                  /\ stack' = SubSeq(stack, 1, Len(stack) - 1)
                  /\ aio_ret' = "true"
                  /\ Notified(NULL)
                  /\ FlushTurned
                  /\ UNCHANGED <<signaled, walking_handlers, nodes,
                                 aio_handlers, fate, uaf, notify_freed>>
    /\ flush_deleted' = FALSE
    /\ UNCHANGED bh_scheduled
    /\ UNCHANGED <<mvars, bvars, ovars, evars>>

\* io_notify returns into the dispatch walk: "tmp = node; node =
\* QLIST_NEXT(node, node); if (tmp->deleted) { remove and free tmp }", and
\* the walk goes on.
aio_callback_return ==
    /\ Defined
    /\ stack # << >>
    /\ Top.pc = "callback"
    /\ LET f == Top
           tmp == f.node
           nx == nodes[tmp].next
           gone == nodes[tmp].deleted # 0
           r == IF gone THEN QLIST_REMOVE(nodes, aio_handlers, tmp)
                ELSE <<nodes, aio_handlers>>
           ns1 == IF gone THEN g_free(r[1], tmp) ELSE nodes
       IN AfterWalk(f,
             aio_dispatch_walk(ns1, r[2], nx, f.events[f.ret],
                 nx # NULL /\ ns1[nx].st # "alloc",
                 2 * MaxNodes,
                 [NoWalk EXCEPT !.uaf = f.dangling,
                                !.freed = IF gone THEN {tmp} ELSE {}]))
    /\ aio_ret' = "none"
    /\ flush_deleted' = FALSE
    /\ UNCHANGED <<signaled, bh_scheduled>>
    /\ UNCHANGED <<mvars, bvars, ovars, evars>>

\* The other outcome of a read through a dangling cursor: the process dies,
\* and nothing of its state is left.
aio_abort ==
    /\ Defined
    /\ stack # << >>
    /\ Top.pc = "callback"
    /\ Top.dangling
    /\ fate' = "aborted"
    /\ uaf' = TRUE
    /\ nodes' = [n \in Slots |-> FreshNode]
    /\ aio_handlers' = NULL
    /\ walking_handlers' = 0
    /\ stack' = << >>
    /\ signaled' = {}
    /\ bh_scheduled' = FALSE
    /\ aio_ret' = "none"
    /\ flush_deleted' = FALSE
    /\ Notified(NULL)
    /\ UNCHANGED flush_turn
    /\ UNCHANGED notify_freed
    /\ UNCHANGED <<mvars, bvars, ovars, evars>>

(***************************************************************************)
(* The environment of the dispatcher.                                      *)
(***************************************************************************)
\* an event notifier is set (by any thread); while qemu_aio_flush runs, only
\* by the completion of requests in flight
event_notifier_set ==
    /\ Defined
    /\ \E e \in Notifiers :
          /\ e \notin signaled
          /\ flush_pc = "loop" => e \in inflight
          /\ signaled' = signaled \cup {e}
          /\ inflight' = inflight \ {e}
    /\ invoked' = NULL
    /\ UNCHANGED <<flush_pc, work, notified, flush_turn, wait_objects>>
    /\ UNCHANGED <<nodes, aio_handlers, walking_handlers, stack, bh_scheduled,
                   fate, uaf, notify_freed>>
    /\ aio_ret' = "none"
    /\ flush_deleted' = FALSE
    /\ UNCHANGED <<mvars, bvars, ovars, evars>>

\* a bottom half is scheduled, between two calls of the dispatcher and not
\* while qemu_aio_flush runs
qemu_bh_schedule ==
    /\ Defined
    /\ AtRest
    /\ flush_pc # "loop"
    /\ ~bh_scheduled
    /\ bh_scheduled' = TRUE
    /\ Notified(NULL)
    /\ UNCHANGED flush_turn
    /\ UNCHANGED <<nodes, aio_handlers, walking_handlers, stack, signaled,
                   fate, uaf, notify_freed>>
    /\ aio_ret' = "none"
    /\ flush_deleted' = FALSE
    /\ UNCHANGED <<mvars, bvars, ovars, evars>>

InitAio ==
    /\ disk_sectors = 0
    /\ alloc = {}
    /\ MirrorInit
    /\ job_turn = 2
    /\ AioInit
    /\ flush_pc = "off"
    /\ BufferedInit(1)
    /\ OldAioInit
    /\ EvCounterInit

NextAio ==
    \/ \E e \in Notifiers, io_notify \in Callbacks \cup {NULL},
          io_flush \in FlushCallbacks :
          qemu_aio_set_event_notifier(e, io_notify, io_flush)
    \/ qemu_aio_wait
    \/ aio_wait_returns
    \/ aio_callback_return
    \/ aio_abort
    \/ event_notifier_set
    \/ qemu_bh_schedule

SpecAio == InitAio /\ [][NextAio]_vars

(***************************************************************************)
(* The dispatcher with its callers' requests followed, one call of         *)
(* qemu_aio_wait at a time: requests are submitted, qemu_aio_flush loops   *)
(* over qemu_aio_wait until it returns false.                              *)
(***************************************************************************)
\* the owner of notifier e starts a request (not while qemu_aio_flush runs)
aio_submit(e) ==
    /\ Defined
    /\ flush_pc = "idle"
    /\ e \notin work
    /\ work' = work \cup {e}
    /\ inflight' = inflight \cup {e}
    /\ invoked' = NULL
    /\ aio_ret' = "none"
    /\ flush_deleted' = FALSE
    /\ UNCHANGED <<nodes, aio_handlers, walking_handlers, stack, signaled,
                   bh_scheduled, fate, uaf, notify_freed, flush_pc, notified,
                   flush_turn, wait_objects>>
    /\ UNCHANGED <<mvars, bvars, ovars, evars>>

\* qemu_aio_flush is called: "while (qemu_aio_wait());" begins
qemu_aio_flush ==
    /\ Defined
    /\ AtRest
    /\ flush_pc = "idle"
    /\ flush_pc' = "loop"
    /\ invoked' = NULL
    /\ aio_ret' = "none"
    /\ flush_deleted' = FALSE
    /\ UNCHANGED <<nodes, aio_handlers, walking_handlers, stack, signaled,
                   bh_scheduled, fate, uaf, notify_freed, work, inflight,
                   notified, flush_turn, wait_objects>>
    /\ UNCHANGED <<mvars, bvars, ovars, evars>>

InitAioPass ==
    /\ disk_sectors = 0
    /\ alloc = {}
    /\ MirrorInit
    /\ job_turn = 2
    /\ AioInit
    /\ flush_pc = "idle"
    /\ BufferedInit(1)
    /\ OldAioInit
    /\ EvCounterInit

NextAioPass ==
    \/ \E e \in Notifiers, io_notify \in Callbacks \cup {NULL},
          io_flush \in FlushCallbacks :
          qemu_aio_set_event_notifier(e, io_notify, io_flush)
    \/ qemu_aio_wait
    \/ aio_wait_returns
    \/ aio_callback_return
    \/ event_notifier_set
    \/ qemu_bh_schedule
    \/ \E e \in Notifiers : aio_submit(e)
    \/ qemu_aio_flush

SpecAioPass == InitAioPass /\ [][NextAioPass]_vars

(***************************************************************************)
(* Properties of the AIO dispatcher.                                       *)
(***************************************************************************)
Registry == ListNodes(nodes, aio_handlers, MaxNodes)

\* the entries of identity e in the set L of blocks that are not tombstoned
LiveEntries(ns, L, e) == {n \in L : ns[n].e = e /\ ns[n].deleted = 0}

\* the calls of qemu_aio_wait whose dispatch walk is under way
ActivePasses == {i \in 1 .. Len(stack) : stack[i].pc = "callback"}

\* C3: a source may be deleted from inside its own callback or another
\* source's callback of the same dispatch pass: no pass reads or unlinks an
\* entry that has been freed, and no callback is invoked through one.
C3_DeleteInCallbackIsSafe ==
    ~uaf /\ ~notify_freed

\* C4: every identity has at most one entry in the registry that is not
\* tombstoned, whatever calls of qemu_aio_set_event_notifier and dispatch
\* passes, also from inside callbacks, came before.
C4_OneLiveEntryPerIdentity ==
    \A e \in Notifiers : Cardinality(LiveEntries(nodes, Registry, e)) <= 1

\* C5: no pass invokes io_flush (nor io_notify) of a tombstoned entry, so
\* that a tombstoned entry never makes a pass decide to block.
C5_TombstonedNeverConsulted ==
    ~flush_deleted

\* C6: while the dispatch walk of some call of qemu_aio_wait is under way
\* (also while one of its callbacks has entered qemu_aio_wait again, and
\* after that nested call has returned) walking_handlers is set, and the
\* entry the walk's cursor refers to has not been freed.
C6_GuardHeldWhileWalking ==
    \A i \in ActivePasses : walking_handlers # 0 /\ ~stack[i].dangling

(***************************************************************************)
(* C11: an I/O error is terminal for the mirror job.  Once an error of the *)
(* length query, of an allocation query of the scan, of a source read or   *)
(* of a target write has been reported, the coroutine has returned (it     *)
(* issues no further query or copy) and that report is the only            *)
(* completion signal.                                                      *)
(***************************************************************************)
C11_IOErrorIsTerminal ==
    (\E k \in Signals : k.ret < 0) => pc = "done" /\ Len(completions) = 1

(***************************************************************************)
(* Buffered transport (buffered_file.c).  Two threads touch the structure: *)
(* the control thread (buffered_put_buffer, the bottom half that creates   *)
(* the worker, buffered_close) and the worker (buffered_file_thread).      *)
(* Each action is one stretch of code between two points where the other   *)
(* thread's accesses to the shared fields can fall.                        *)
(***************************************************************************)
\* no undefined behaviour has happened yet
Sound == observed.ub = "no"

\* the bytes the transport holds and still owes to the sink
Buffered ==
    IF qfb.buffer_offset <= qfb.buffer_size /\ qfb.buffer_size <= Len(buffer)
    THEN SubSeq(buffer, qfb.buffer_offset + 1, qfb.buffer_size)
    ELSE << >>

\* bytes 1 .. n in writing order
Stream(n) == [i \in 1 .. n |-> i]

\* g_realloc in buffered_put_buffer: the block after growing to cap bytes
g_realloc(block, cap) ==
    [i \in 1 .. cap |-> IF i <= Len(block) THEN block[i] ELSE 0]

\* memcpy(s->buffer + at, buf, size), buf holding bytes first + 1 ...
memcpy(block, at, size, first) ==
    [i \in 1 .. Len(block) |->
        IF i > at /\ i <= at + size THEN first + (i - at) ELSE block[i]]

\* buffered_put_buffer: the capacity it leaves
put_capacity(size) ==
    IF size > SizeDiff(qfb.buffer_capacity, qfb.buffer_size)
    THEN qfb.buffer_capacity + size + BufferSlack
    ELSE qfb.buffer_capacity

\* buffered_put_buffer: what its memcpy does to memory it does not own
put_fault(size) ==
    IF qfb.buffer_freed THEN "write to freed buffer"
    ELSE IF qfb.buffer_size + size > put_capacity(size)
         THEN "write past the buffer"
         ELSE "no"

\* buffered_put_buffer: the block after the memcpy
put_block(size) ==
    memcpy(g_realloc(buffer, put_capacity(size)), qfb.buffer_size, size,
           observed.written)

\* the control thread enters buffered_put_buffer with size bytes and runs
\* it up to and including the memcpy; the increment of buffer_size follows
\* in put_add
buffered_put_buffer(size) ==
    /\ Sound
    /\ closer = "open"
    /\ ~qfb.freed
    /\ producer.pc = "idle"
    /\ observed.puts < MaxPuts
    /\ qfb' = [qfb EXCEPT !.buffer_capacity = put_capacity(size)]
    /\ IF put_fault(size) # "no"
       THEN /\ observed' = [observed EXCEPT !.ub = put_fault(size)]
            /\ UNCHANGED <<buffer, producer>>
       ELSE /\ buffer' = put_block(size)
            /\ producer' = [pc |-> "add", at |-> qfb.buffer_size, size |-> size]
            /\ observed' = [observed EXCEPT !.puts = @ + 1,
                                            !.written = @ + size]
    /\ UNCHANGED <<last_error, worker, closer, sink>>
    /\ UNCHANGED <<mvars, avars, ovars, evars>>

\* s->buffer_size += size, and the return.  The compiled code adds to the
\* value it loaded for the memcpy or to a fresh load: with the worker writing
\* buffer_size in between (a data race) either sum can be stored.
put_add ==
    /\ Sound
    /\ producer.pc = "add"
    /\ \E base \in {producer.at, qfb.buffer_size} :
          qfb' = [qfb EXCEPT !.buffer_size = base + producer.size]
    /\ producer' = [pc |-> "idle", at |-> 0, size |-> 0]
    /\ observed' = [observed EXCEPT
                      !.accepted = @ + producer.size,
                      !.raced = @ \/ qfb.buffer_size # producer.at]
    /\ UNCHANGED <<buffer, last_error, worker, closer, sink>>
    /\ UNCHANGED <<mvars, avars, ovars, evars>>

\* "return s->file": qemu_fopen_ops_buffered returns to its caller, the
\* bottom half scheduled
fopen_return ==
    /\ Sound
    /\ closer = "opening"
    /\ closer' = "open"
    /\ UNCHANGED <<qfb, buffer, last_error, worker, producer, sink, observed>>
    /\ UNCHANGED <<mvars, avars, ovars, evars>>

\* a variant of bh_after_create: the bottom half is left in place
bh_after_create_kept == TRUE

\* "qemu_bh_delete(s->bh); s->bh = NULL"
bh_after_create == FALSE

\* the bottom half: buffered_file_create_thread.  The dispatcher runs bottom
\* halves on the control thread, between two pieces of its other work.
buffered_file_create_thread ==
    /\ Sound
    /\ closer = "open"
    /\ producer.pc = "idle"
    /\ qfb.bh
    /\ ~qfb.freed
    /\ qfb' = [qfb EXCEPT !.bh = bh_after_create]
    /\ worker' = [worker EXCEPT !.pc = "loop"]
    /\ observed' = [observed EXCEPT !.threads = @ + 1]
    /\ UNCHANGED <<buffer, last_error, producer, closer, sink>>
    /\ UNCHANGED <<mvars, avars, ovars, evars>>

\* a step of the worker reads the structure: after g_free(s) that is a use
\* of freed memory
Touch(obs) ==
    IF qfb.freed THEN [obs EXCEPT !.late = TRUE, !.ub = "worker used freed s"]
               ELSE obs

\* buffered_file_thread: the loop condition, the pacing, and buffered_flush
\* up to its first call of the sink
thread_loop ==
    /\ Sound
    /\ worker.pc = "loop"
    /\ IF qfb.closed # 0 \/ last_error # 0
       THEN /\ worker' = [worker EXCEPT !.pc = "close"]
       ELSE \E expired \in BOOLEAN :
            LET slept == worker.bytes_xfer >= qfb.xfer_limit
                renew == slept \/ ~worker.expire_set \/ expired
                xfer  == IF renew THEN 0 ELSE worker.bytes_xfer
                \* buffered_flush returns at once when the error is set
                flen  == IF last_error # 0 THEN 0
                         ELSE Min(qfb.xfer_limit,
                                  SizeDiff(qfb.buffer_size, qfb.buffer_offset))
            IN  /\ (slept \/ ~worker.expire_set) => expired
                /\ worker' = [pc |-> IF flen = 0 THEN "after_flush" ELSE "put",
                              bytes_xfer |-> xfer, expire_set |-> TRUE,
                              len |-> flen, total |-> 0, ret |-> 0]
    /\ observed' = Touch(observed)
    /\ UNCHANGED <<qfb, buffer, last_error, producer, closer, sink>>
    /\ UNCHANGED <<mvars, avars, ovars, evars>>

\* what the sink can answer to put_buffer(opaque, p, len): the number of
\* bytes it took (1 .. len), 0, or an error
SinkAnswers(n) ==
    {r \in 1 .. n : Len(sink) + r <= MaxSinkLen} \cup {0, 0 - EIO}

\* buffered_flush: one turn of the do-while loop
flush_put ==
    /\ Sound
    /\ worker.pc = "put"
    /\ IF qfb.buffer_offset + worker.len > Len(buffer)
       THEN /\ observed' = [Touch(observed) EXCEPT
                              !.beyond = TRUE, !.ub = "read past the buffer"]
            /\ UNCHANGED <<qfb, worker, sink>>
       ELSE \E r \in SinkAnswers(worker.len) :
            LET res == IF r = 0 THEN 0 - EPIPE ELSE r
            IN  /\ sink' = sink \o SubSeq(buffer, qfb.buffer_offset + 1,
                                          qfb.buffer_offset + (IF r > 0 THEN r ELSE 0))
                /\ qfb' = IF res > 0
                        THEN [qfb EXCEPT !.buffer_offset = @ + res]
                        ELSE qfb
                /\ worker' = [worker EXCEPT
                                !.pc = IF res > 0 THEN "put" ELSE "flush_end",
                                !.total = IF res > 0 THEN @ + res ELSE @,
                                !.ret = res]
                /\ observed' = [Touch(observed) EXCEPT
                                  !.beyond = @ \/ qfb.buffer_offset + worker.len
                                                    > qfb.buffer_size]
    /\ UNCHANGED <<buffer, last_error, producer, closer>>
    /\ UNCHANGED <<mvars, avars, ovars, evars>>

\* qemu_file_set_error (savevm.c)
qemu_file_set_error(err) == err

\* a variant of flush_set_error that does not record the error
flush_set_error_skipped(res, err) == err

\* buffered_flush after the loop: if (ret < 0) qemu_file_set_error(...)
flush_set_error(res, err) ==
    IF res < 0 THEN qemu_file_set_error(res) ELSE err

\* buffered_flush after the loop, and the worker adding the result to
\* bytes_xfer
flush_end ==
    /\ Sound
    /\ worker.pc = "flush_end"
    /\ last_error' = flush_set_error(worker.ret, last_error)
    /\ qfb' = IF qfb.buffer_offset = qfb.buffer_size
            THEN [qfb EXCEPT !.buffer_offset = 0, !.buffer_size = 0]
            ELSE qfb
    /\ worker' = [worker EXCEPT !.pc = "after_flush",
                                !.bytes_xfer = @ + worker.total]
    /\ observed' = Touch(observed)
    /\ UNCHANGED <<buffer, producer, closer, sink>>
    /\ UNCHANGED <<mvars, avars, ovars, evars>>

\* s->put_ready(s->opaque), called by the thread that runs
\* buffered_file_thread
put_ready(obs) == [obs EXCEPT !.ready_by = @ \cup {"worker"}]

\* the rest of the loop body: put_ready, qemu_fflush, and the break.
\* qemu_fflush hands the bytes staged in s->file, if any, to
\* buffered_put_buffer, here in the worker thread.
thread_after_flush ==
    /\ Sound
    /\ worker.pc = "after_flush"
    /\ IF SizeDiff(qfb.buffer_size, qfb.buffer_offset) < qfb.xfer_limit
       THEN \E size \in 0 .. MaxPutSize :
            /\ size > 0 => observed.puts < MaxPuts /\ ~qfb.freed
            /\ IF size > 0 /\ put_fault(size) # "no"
               THEN /\ observed' = [put_ready(observed) EXCEPT
                                       !.ub = put_fault(size)]
                    /\ UNCHANGED <<qfb, buffer, worker>>
               ELSE /\ buffer' = IF size > 0 THEN put_block(size) ELSE buffer
                    /\ qfb' = IF size > 0
                            THEN [qfb EXCEPT
                                    !.buffer_capacity = put_capacity(size),
                                    !.buffer_size = @ + size]
                            ELSE qfb
                    /\ worker' = [worker EXCEPT
                                    !.pc = IF qfb.buffer_size + size = 0
                                           THEN "close" ELSE "loop",
                                    !.len = 0, !.total = 0, !.ret = 0]
                    /\ observed' = IF size > 0
                                   THEN [put_ready(observed) EXCEPT
                                           !.puts = @ + 1,
                                           !.written = @ + size,
                                           !.accepted = @ + size]
                                   ELSE put_ready(Touch(observed))
       ELSE /\ worker' = [worker EXCEPT !.pc = "loop",
                                        !.len = 0, !.total = 0, !.ret = 0]
            /\ observed' = Touch(observed)
            /\ UNCHANGED <<qfb, buffer>>
    /\ UNCHANGED <<last_error, producer, closer, sink>>
    /\ UNCHANGED <<mvars, avars, ovars, evars>>

\* s->close(s->opaque)
thread_close ==
    /\ Sound
    /\ worker.pc = "close"
    /\ worker' = [worker EXCEPT !.pc = "free"]
    /\ observed' = [Touch(observed) EXCEPT !.close_calls = @ + 1,
                                           !.sink_at_close = Len(sink)]
    /\ UNCHANGED <<qfb, buffer, last_error, producer, closer, sink>>
    /\ UNCHANGED <<mvars, avars, ovars, evars>>

\* g_free(s->buffer) and the return of the thread function
thread_exit ==
    /\ Sound
    /\ worker.pc = "free"
    /\ qfb' = [qfb EXCEPT !.buffer_freed = TRUE]
    /\ worker' = [worker EXCEPT !.pc = "exited"]
    /\ observed' = Touch(observed)
    /\ UNCHANGED <<buffer, last_error, producer, closer, sink>>
    /\ UNCHANGED <<mvars, avars, ovars, evars>>

\* buffered_close up to the join: with the bottom half still pending it
\* deletes it and frees the structure, otherwise it sets closed
buffered_close ==
    /\ Sound
    /\ closer = "open"
    /\ producer.pc = "idle"
    /\ ~qfb.freed
    /\ IF qfb.bh
       THEN /\ qfb' = [qfb EXCEPT !.bh = FALSE, !.freed = TRUE]
            /\ closer' = "returned"
       ELSE /\ qfb' = [qfb EXCEPT !.closed = 1]
            /\ closer' = "join"
    /\ UNCHANGED <<buffer, last_error, worker, producer, sink, observed>>
    /\ UNCHANGED <<mvars, avars, ovars, evars>>

\* a variant of thread_joined: the join does not wait for the worker
thread_joined_at_once == TRUE

\* qemu_thread_join(&thread) returns once the thread function has returned
thread_joined == worker.pc = "exited"

\* buffered_close from the join on: the join returns, then g_free(s)
close_join ==
    /\ Sound
    /\ closer = "join"
    /\ thread_joined
    /\ qfb' = [qfb EXCEPT !.freed = TRUE]
    /\ closer' = "returned"
    /\ UNCHANGED <<buffer, last_error, worker, producer, sink, observed>>
    /\ UNCHANGED <<mvars, avars, ovars, evars>>

InitBuffered ==
    /\ disk_sectors = 0
    /\ alloc = {}
    /\ MirrorInit
    /\ job_turn = 2
    /\ AioInit
    /\ flush_pc = "off"
    /\ \E limit \in XferLimits : BufferedInit(limit)
    /\ OldAioInit
    /\ EvCounterInit

NextBuffered ==
    \/ fopen_return
    \/ \E size \in 1 .. MaxPutSize : buffered_put_buffer(size)
    \/ put_add
    \/ buffered_file_create_thread
    \/ thread_loop
    \/ flush_put
    \/ flush_end
    \/ thread_after_flush
    \/ thread_close
    \/ thread_exit
    \/ buffered_close
    \/ close_join

SpecBuffered == InitBuffered /\ [][NextBuffered]_vars

(***************************************************************************)
(* C12: once buffered_close has returned after bytes were written, every   *)
(* byte the transport accepted has reached the sink, in writing order and nothing else, and   *)
(* all of it before the close callback fired, which fired exactly once;    *)
(* this whether close was called before or after the worker thread was     *)
(* created.                                                                *)
(***************************************************************************)
C12_CloseDeliversEverything ==
    closer = "returned" /\ observed.accepted > 0 =>
        /\ observed.close_calls = 1
        /\ observed.sink_at_close = observed.accepted
        /\ sink = Stream(observed.accepted)

(***************************************************************************)
(* C13: the producer's append and the worker's drain never overlap: while  *)
(* the control thread is between the memcpy and the increment of           *)
(* buffer_size the worker is not inside buffered_flush, and buffer_size is *)
(* never changed under the producer, so the reset of the offsets cannot    *)
(* discard or replay bytes appended at the same time.                      *)
(***************************************************************************)
C13_AppendAndDrainExclusive ==
    /\ ~(producer.pc = "add" /\ worker.pc \in {"put", "flush_end"})
    /\ ~observed.raced

(***************************************************************************)
(* C14: in every reachable state of the transport                          *)
(* 0 <= buffer_offset <= buffer_size <= buffer_capacity, whatever writes   *)
(* and drains (partial sink writes included) came before.                  *)
(***************************************************************************)
C14_OffsetsOrdered ==
    /\ 0 <= qfb.buffer_offset
    /\ qfb.buffer_offset <= qfb.buffer_size
    /\ qfb.buffer_size <= qfb.buffer_capacity

(***************************************************************************)
(* C15: a drain never hands the sink bytes beyond the write offset; the    *)
(* bytes one drain hands over, summed over its retries, are at most        *)
(* min(xfer_limit, bytes buffered when it began); and the bytes handed     *)
(* over within one pacing slice never exceed xfer_limit.                   *)
(***************************************************************************)
C15_DrainBounded ==
    /\ ~observed.beyond
    /\ worker.total <= worker.len
    /\ worker.bytes_xfer <= qfb.xfer_limit

\* buffered_rate_limit: the error if one is recorded, else whether more than
\* xfer_limit bytes are buffered
buffered_rate_limit ==
    IF last_error # 0 THEN last_error
    ELSE IF SizeDiff(qfb.buffer_size, qfb.buffer_offset) > qfb.xfer_limit
         THEN 1 ELSE 0

(***************************************************************************)
(* C16: the sink error is sticky.  A failed sink write is recorded by the  *)
(* drain that saw it; a recorded error never changes; while it is set no   *)
(* step hands bytes to the sink and the worker does not enter a drain;     *)
(* buffered_rate_limit returns the error code; and the error is set only   *)
(* by a drain whose last sink write failed, never after one that           *)
(* succeeded.                                                              *)
(***************************************************************************)
C16_SinkErrorIsSticky ==
    /\ [][/\ (worker.pc = "flush_end" /\ worker.ret < 0 /\ worker'.pc # "flush_end")
                => last_error' = worker.ret
          /\ last_error # 0 => /\ last_error' = last_error
                               /\ sink' = sink
                               /\ worker'.pc \notin {"put", "flush_end"}
          /\ last_error' # last_error
                => worker.pc = "flush_end" /\ worker.ret < 0]_vars
    /\ [](last_error # 0 => buffered_rate_limit = last_error)

\* the sink failed after taking part of the data: the error is recorded, the
\* worker has stopped and exited, and bytes are left in the buffer
C16_Witness ==
    /\ last_error # 0
    /\ Len(sink) > 0
    /\ Len(Buffered) > 0
    /\ worker.pc = "exited"
    /\ buffered_rate_limit < 0

(***************************************************************************)
(* C17: when buffered_close has returned, the worker thread was never      *)
(* created or has returned from its thread function; and once the          *)
(* structure is freed no step of the worker (drain, ready callback, close  *)
(* callback, access to the buffer or to the structure) happens.            *)
(***************************************************************************)
C17_NoWorkerStepAfterClose ==
    /\ [](closer = "returned" => worker.pc \in {"none", "exited"})
    /\ [](~observed.late)
    /\ [][qfb.freed => worker' = worker]_vars

\* close was called while the worker was running and had delivered bytes; it
\* returned after the worker's close callback and exit
C17_Witness ==
    /\ closer = "returned"
    /\ qfb.closed = 1
    /\ qfb.freed
    /\ worker.pc = "exited"
    /\ observed.close_calls = 1
    /\ Len(sink) > 0

(***************************************************************************)
(* C18: within one call of qemu_aio_wait the io_notify callback of an      *)
(* event notifier is invoked at most once: no step invokes io_notify of a  *)
(* notifier the same call has already invoked, even if the notifier was    *)
(* set again in the meantime.                                              *)
(***************************************************************************)
C18_NotifiedOncePerCall ==
    [][invoked' # NULL => invoked' \notin notified]_vars

\* no registered handler (in the list and not marked deleted) would report
\* requests in flight to io_flush
NoRequests ==
    \A n \in Registry :
        nodes[n].deleted # 0 \/ nodes[n].io_flush = NULL
            \/ nodes[n].e \notin work

(***************************************************************************)
(* C19: a call of qemu_aio_wait that finds no bottom half to run and no    *)
(* registered handler whose io_flush reports requests in flight returns    *)
(* false, and does so without waiting (no call is left active) and without *)
(* invoking any io_notify.                                                 *)
(***************************************************************************)
C19_IdleReturnsFalse ==
    [][(/\ Defined /\ AtRest /\ ~bh_scheduled /\ NoRequests
        /\ (aio_ret' # "none" \/ stack' # << >>))
          => (aio_ret' = "false" /\ stack' = << >> /\ invoked' = NULL
              /\ signaled' = signaled)]_vars

(***************************************************************************)
(* qemu_aio_flush under fair scheduling: while it runs the dispatcher      *)
(* takes its next step, and the notifier of every request in flight is     *)
(* eventually set.                                                         *)
(***************************************************************************)
Flushing == flush_pc = "loop"

\* the thread inside qemu_aio_flush can take its next step: call
\* qemu_aio_wait, return from WaitForMultipleObjects, or return from
\* io_notify
DispatcherReady ==
    /\ Defined
    /\ Flushing
    /\ \/ AtRest
       \/ Top.pc = "callback"
       \/ /\ Top.pc = "wait"
          /\ \/ FirstSignaled(Top.events) # 0
             \/ Top.timeout = "0"
             \/ Len(Top.events) = 0

\* that step (the steps of the dispatcher are those that change flush_turn)
DispatcherStep == DispatcherReady /\ flush_turn' = 1 - flush_turn

SpecAioFlush ==
    /\ SpecAioPass
    /\ WF_flush_turn(DispatcherStep)
    /\ WF_vars(Flushing /\ event_notifier_set)

(***************************************************************************)
(* C20: qemu_aio_flush terminates.  While it runs no bottom half is        *)
(* scheduled and no request is submitted outside a callback, and the       *)
(* notifiers of the requests in flight are eventually set.  Whenever the   *)
(* loop of qemu_aio_flush is between two calls of qemu_aio_wait with no    *)
(* bottom half left to run and no registered handler reporting requests    *)
(* in flight, the loop ends, with a call of qemu_aio_wait that returns     *)
(* false.                                                                  *)
(***************************************************************************)
C20_FlushTerminates ==
    (Flushing /\ AtRest /\ ~bh_scheduled /\ NoRequests)
        ~> (flush_pc = "idle" \/ ~Defined)


(***************************************************************************)
(* C21: a failure of WaitForMultipleObjects is reported by qemu_aio_wait   *)
(* as an outcome of its own.  A call that waits with timeout INFINITE on   *)
(* events none of which is set returns only because the wait failed; it    *)
(* then returns neither true ("did work") nor false ("idle").              *)
(***************************************************************************)
WaitFailed ==
    /\ Defined
    /\ stack # << >>
    /\ Top.pc = "wait"
    /\ Top.timeout = "INFINITE"
    /\ FirstSignaled(Top.events) = 0
    /\ Len(stack') < Len(stack)

C21_WaitFailureReported ==
    [][WaitFailed => aio_ret' \notin {"true", "false"}]_vars


(***************************************************************************)
(* C22: the full scan and the first pass of copies, for a source of a      *)
(* whole number of sectors, without guest writes and without I/O errors,   *)
(* whatever spans bdrv_co_is_allocated_above reports.  When the scan has   *)
(* finished, the dirty chunks are exactly the chunks in which a query was  *)
(* answered "allocated"; when the job is synced, the bytes copied until    *)
(* then are the sizes of those chunks, the last one clipped to the length  *)
(* of the source.                                                          *)
(***************************************************************************)
RECURSIVE SumBytes(_, _)
SumBytes(S, l) ==
    IF S = {} THEN 0
    ELSE LET c == CHOOSE x \in S : TRUE
         IN Min(BLOCK_SIZE, l - c * BLOCK_SIZE) + SumBytes(S \ {c}, l)

Undisturbed == nwrites = 0 /\ \A k \in Signals : k.ret >= 0

C22_ScanThenCopyReported ==
    /\ (scan.finished /\ Undisturbed) => scan.dirty = scan.reported
    /\ (synced /\ Undisturbed) => scan.copied = SumBytes(scan.reported, len)

\* a source of two chunks, the last one short, both reported allocated and
\* copied
C22_Witness ==
    /\ synced
    /\ Undisturbed
    /\ len = 3 * BDRV_SECTOR_SIZE
    /\ scan.reported = {0, 1}
    /\ scan.copied = len


(***************************************************************************)
(* C23: when bdrv_open of the target fails in mirror_start, the target is  *)
(* released and the failure is delivered by one completion signal with a   *)
(* negative result; dirty tracking is off and the coroutine was not        *)
(* created.                                                                *)
(***************************************************************************)
C23_OpenFailureSignalled ==
    pc = "open_failed" =>
        /\ ~target_open
        /\ ~tracking
        /\ Len(completions) = 1
        /\ completions[1].ret < 0


(***************************************************************************)
(* C24: no completion signal is delivered while mirror_start is still      *)
(* executing: the step of mirror_start, which runs mirror_run up to its    *)
(* first yield, calls block_job_complete on no path.                       *)
(***************************************************************************)
C24_StartReturnsBeforeSignal ==
    [][pc = "init" => completions' = completions]_vars


(***************************************************************************)
(* C25: put_ready is not invoked, and the thread not created, before       *)
(* qemu_fopen_ops_buffered has returned; the thread is created at most     *)
(* once, by the bottom half, which is removed by the step that creates     *)
(* the thread; a bottom half deleted by buffered_close never runs.         *)
(***************************************************************************)
C25_ThreadStartedOnceAfterOpen ==
    /\ [](closer = "opening" =>
             observed.ready_by = {} /\ observed.threads = 0)
    /\ [](observed.threads <= 1)
    /\ [](observed.threads = 1 => ~qfb.bh)
    /\ []((closer = "returned" /\ worker.pc = "none") =>
             observed.threads = 0 /\ observed.ready_by = {} /\ ~qfb.bh)
    /\ [][observed.threads' # observed.threads =>
             qfb.bh /\ closer = "open" /\ observed.threads = 0]_vars

\* open has returned, the bottom half has created the thread, and the
\* thread has called put_ready
C25_Witness ==
    /\ observed.threads = 1
    /\ observed.ready_by # {}
    /\ ~qfb.bh


(***************************************************************************)
(* C26: put_ready is invoked by the control thread only (from a bottom     *)
(* half of the dispatcher), never by the worker thread, and so never       *)
(* while the control thread is inside buffered_put_buffer or               *)
(* buffered_close.                                                         *)
(***************************************************************************)
C26_ReadyOnControlThread ==
    /\ [](observed.ready_by \subseteq {"control"})
    /\ [][observed'.ready_by # observed.ready_by =>
             producer.pc = "idle" /\ closer = "open"]_vars


(***************************************************************************)
(* The buffered transport under fair scheduling: the control thread        *)
(* returns from the calls it is in and runs the bottom half, and the       *)
(* worker thread takes its next step.                                      *)
(***************************************************************************)
SpecBufferedFair ==
    /\ SpecBuffered
    /\ WF_vars(fopen_return)
    /\ WF_vars(put_add)
    /\ WF_vars(buffered_file_create_thread)
    /\ WF_vars(thread_loop)
    /\ WF_vars(flush_put)
    /\ WF_vars(flush_end)
    /\ WF_vars(thread_after_flush)

(***************************************************************************)
(* C27: a transport opened with bytes_per_sec = 0 (xfer_limit = 0) is      *)
(* unlimited: the bytes buffered_put_buffer has accepted are eventually    *)
(* all delivered to the sink, unless the sink fails, the transport is      *)
(* closed or the worker thread has left its loop first.                    *)
(***************************************************************************)
C27_UnlimitedDelivers ==
    (qfb.xfer_limit = 0 /\ observed.accepted > 0)
        ~> (\/ Len(sink) = observed.accepted
            \/ last_error # 0
            \/ closer # "open"
            \/ worker.pc \in {"close", "free", "exited"}
            \/ ~Sound)


(***************************************************************************)
(* C28: after any sequence of calls of qemu_aio_set_event_notifier for an  *)
(* event notifier, the main loop holds at most one wait object for it,     *)
(* and none when no handler is registered for it.                          *)
(***************************************************************************)
C28_OneWaitObjectPerNotifier ==
    Defined =>
        \A e \in Notifiers :
            /\ wait_objects[e] <= 1
            /\ LiveEntries(nodes, Registry, e) = {} => wait_objects[e] = 0


(***************************************************************************)
(* C29: a call of set_speed with a negative speed is rejected with         *)
(* QERR_INVALID_PARAMETER and leaves the quota of the rate limiter and the *)
(* speed of the job as they were; a call with a speed that is not negative *)
(* sets the quota of a slice from the speed in sectors per second.  The    *)
(* call does not touch the copy in flight, nor the delay and the units     *)
(* already charged; the next pacing decision of a job that is not synced   *)
(* sleeps 0 exactly when the chunk is the first of its slice or fits the   *)
(* quota then in force.                                                    *)
(***************************************************************************)
JobStep ==
    \/ \E openOk \in BOOLEAN, lenOk \in BOOLEAN : mirror_start(openOk, lenOk)
    \/ ScanStep
    \/ ReadDone
    \/ WriteDone
    \/ Wake

C29_SetSpeedChecked ==
    /\ [][\A speed \in Speeds :
            (pace' # pace /\ block_job_set_speed(speed)) =>
              /\ speed < 0 =>
                    /\ pace'.errp = "QERR_INVALID_PARAMETER"
                    /\ pace'.slice_quota = pace.slice_quota
                    /\ pace'.speed = pace.speed
              /\ speed >= 0 =>
                    /\ pace'.errp = "none"
                    /\ pace'.slice_quota =
                          (speed \div BDRV_SECTOR_SIZE) \div SlicesPerSecond
                    /\ pace'.speed = speed
              /\ pace'.delay_ns = pace.delay_ns
              /\ pace'.dispatched = pace.dispatched
              /\ <<pc, sector_num, buf, tgt, dirty>>'
                    = <<pc, sector_num, buf, tgt, dirty>>]_vars
    /\ [][(pc' = "sleep" /\ ~synced' /\ pace.speed # 0 /\ JobStep) =>
             (pace'.delay_ns = 0 <=>
                 \/ pace.slice_over
                 \/ pace.dispatched = 0
                 \/ pace.dispatched + SectorsPerChunk <= pace.slice_quota)]_vars

\* a negative speed was rejected while a limit was in force and a copy in
\* flight
C29_Witness ==
    /\ pace.errp = "QERR_INVALID_PARAMETER"
    /\ pace.slice_quota > 0
    /\ pace.speed > 0
    /\ pc \in {"read", "write"}

(***************************************************************************)
(* C30: a job that is not synced yields after every chunk it has copied    *)
(* (the step that completes a copy ends in block_job_sleep_ns or ends the  *)
(* job, it never issues the next copy), with delay 0 when the speed is 0;  *)
(* a synced job that is not cancelled yields with delay 0 when dirty       *)
(* chunks are left and with SLICE_TIME when none is.                       *)
(***************************************************************************)
C30_YieldsBetweenCopies ==
    /\ [][(pc = "write" /\ ~synced /\ WriteDone) =>
             /\ pc' \in {"sleep", "done"}
             /\ (pc' = "sleep" /\ pace.speed = 0) => pace'.delay_ns = 0]_vars
    /\ [][(pc' = "sleep" /\ synced' /\ ~cancelled' /\ JobStep) =>
             pace'.delay_ns = IF dirty' = {} THEN SLICE_TIME ELSE 0]_vars

\* a synced job sleeps with delay 0 because a guest write left a chunk dirty
C30_Witness ==
    /\ pc = "sleep"
    /\ synced
    /\ ~cancelled
    /\ dirty # {}
    /\ pace.delay_ns = 0


(***************************************************************************)
(* The older AIO dispatcher (aio.c): a list of handlers with an io_flush   *)
(* predicate and an io_process_queue callback, qemu_aio_wait with the      *)
(* result of a synchronous request, and qemu_aio_flush.                    *)
(***************************************************************************)
\* find_aio_handler: the position of the first node with this opaque, or 0
old_find_aio_handler(hs, opaque) ==
    IF \E i \in 1 .. Len(hs) : hs[i].opaque = opaque
    THEN CHOOSE i \in 1 .. Len(hs) :
            /\ hs[i].opaque = opaque
            /\ \A j \in 1 .. (i - 1) : hs[j].opaque # opaque
    ELSE 0

\* qemu_aio_set_handler(opaque, io_flush, io_process_queue), called between
\* two calls of the dispatcher; the assertion is the guard
old_qemu_aio_set_handler(opaque, io_flush, io_process_queue) ==
    /\ opc = "idle"
    /\ io_flush \/ io_process_queue
    /\ LET i == old_find_aio_handler(old_handlers, opaque)
           hs == IF i = 0
                 THEN <<[opaque |-> opaque, io_flush |-> FALSE,
                         io_process_queue |-> FALSE]>> \o old_handlers
                 ELSE old_handlers
           j == IF i = 0 THEN 1 ELSE i
       IN old_handlers' = [hs EXCEPT ![j].io_flush = io_flush,
                                     ![j].io_process_queue = io_process_queue]
    /\ UNCHANGED <<old_bh, queued, started, ioready, opc, owait, olast>>
    /\ UNCHANGED <<mvars, avars, bvars, evars>>

\* a caller queues an emulated request on the handler of this opaque
old_submit(o) ==
    /\ queued[o] + started[o] < MaxQueued
    /\ queued' = [queued EXCEPT ![o] = @ + 1]
    /\ UNCHANGED <<old_handlers, old_bh, started, ioready, opc, owait, olast>>
    /\ UNCHANGED <<mvars, avars, bvars, evars>>

\* a bottom half is scheduled
old_bh_schedule ==
    /\ ~old_bh
    /\ old_bh' = TRUE
    /\ UNCHANGED <<old_handlers, queued, started, ioready, opc, owait, olast>>
    /\ UNCHANGED <<mvars, avars, bvars, evars>>

\* a started request completes on its thread, which signals I/O readiness
old_io_complete(o) ==
    /\ started[o] > 0
    /\ ioready < MaxIoReady
    /\ started' = [started EXCEPT ![o] = @ - 1]
    /\ ioready' = ioready + 1
    /\ UNCHANGED <<old_handlers, old_bh, queued, opc, owait, olast>>
    /\ UNCHANGED <<mvars, avars, bvars, evars>>

\* qemu_aio_process_queue: every io_process_queue callback once, each
\* starting a queued request of its opaque; 1 when one of them did something
old_qemu_aio_process_queue(hs, q, st) ==
    LET S == {hs[i].opaque : i \in {k \in 1 .. Len(hs) :
                    hs[k].io_process_queue /\ q[hs[k].opaque] > 0}}
    IN [queued |-> [o \in Opaques |-> IF o \in S THEN q[o] - 1 ELSE q[o]],
        started |-> [o \in Opaques |-> IF o \in S THEN st[o] + 1 ELSE st[o]],
        ret |-> IF S # {} THEN 1 ELSE 0]

\* the walk of qemu_aio_flush: the io_flush predicates, or-ed
old_io_flush_all(hs, st) ==
    IF \E i \in 1 .. Len(hs) : hs[i].io_flush /\ st[hs[i].opaque] > 0
    THEN 1 ELSE 0

\* "*result": async_ret when the caller passed NULL, else the caller's value
Deref(w) ==
    CASE w.result = "NULL" -> w.async_ret
      [] w.result = "done" -> 0
      [] OTHER -> NOT_DONE

\* the locals of qemu_aio_wait at its entry, after qemu_get_ioready
WaitEntry(result, in_flush) ==
    [result |-> result, async_ret |-> NOT_DONE, state |-> ioready,
     iters |-> 0, in_flush |-> in_flush]

\* "*result != NOT_DONE", the loop condition of qemu_aio_wait
loop_continues(w) == Deref(w) # NOT_DONE

\* qemu_aio_wait(result) is called; result is NULL, or points to a value
\* that is NOT_DONE, or to one that is not
old_qemu_aio_wait(result) ==
    /\ opc = "idle"
    /\ owait' = WaitEntry(result, FALSE)
    /\ opc' = "wait_cond"
    /\ UNCHANGED <<old_handlers, old_bh, queued, started, ioready, olast>>
    /\ UNCHANGED <<mvars, avars, bvars, evars>>

\* the loop of qemu_aio_wait from its condition to the next one, to the
\* blocking qemu_wait_ioready, or to the return
old_wait_step ==
    /\ opc = "wait_cond"
    /\ IF loop_continues(owait)
       THEN /\ owait.iters < MaxIters
            /\ IF old_bh
               THEN /\ old_bh' = FALSE
                    /\ owait' = [owait EXCEPT !.iters = @ + 1, !.async_ret = 0]
                    /\ UNCHANGED <<queued, started, opc>>
               ELSE LET r == old_qemu_aio_process_queue(old_handlers, queued,
                                                        started)
                    IN /\ queued' = r.queued
                       /\ started' = r.started
                       /\ IF r.ret # 0
                          THEN /\ owait' = [owait EXCEPT !.iters = @ + 1,
                                                         !.async_ret = 0]
                               /\ opc' = opc
                          ELSE /\ owait' = [owait EXCEPT !.iters = @ + 1]
                               /\ opc' = "wait_ioready"
                       /\ UNCHANGED old_bh
            /\ UNCHANGED olast
       ELSE /\ olast' = [returned |-> TRUE, result |-> owait.result,
                         iters |-> owait.iters, in_flush |-> owait.in_flush]
            /\ opc' = IF owait.in_flush THEN "flush_walk" ELSE "idle"
            /\ owait' = NoWait
            /\ UNCHANGED <<old_bh, queued, started>>
    /\ UNCHANGED <<old_handlers, ioready>>
    /\ UNCHANGED <<mvars, avars, bvars, evars>>

\* qemu_wait_ioready returns: the counter has moved since the snapshot
old_wait_ioready ==
    /\ opc = "wait_ioready"
    /\ ioready # owait.state
    /\ owait' = [owait EXCEPT !.state = ioready, !.async_ret = 0]
    /\ opc' = "wait_cond"
    /\ UNCHANGED <<old_handlers, old_bh, queued, started, ioready, olast>>
    /\ UNCHANGED <<mvars, avars, bvars, evars>>

\* qemu_aio_flush is called: the first round calls qemu_aio_wait(NULL)
old_qemu_aio_flush ==
    /\ opc = "idle"
    /\ owait' = WaitEntry("NULL", TRUE)
    /\ opc' = "wait_cond"
    /\ UNCHANGED <<old_handlers, old_bh, queued, started, ioready, olast>>
    /\ UNCHANGED <<mvars, avars, bvars, evars>>

\* the rest of a round of qemu_aio_flush: the io_flush predicates, then
\* "while (qemu_bh_poll() || ret > 0)"
old_flush_walk ==
    /\ opc = "flush_walk"
    /\ LET r == old_io_flush_all(old_handlers, started)
       IN IF old_bh \/ r > 0
          THEN /\ owait' = WaitEntry("NULL", TRUE)
               /\ opc' = "wait_cond"
          ELSE /\ owait' = NoWait
               /\ opc' = "idle"
    /\ old_bh' = FALSE
    /\ UNCHANGED <<old_handlers, queued, started, ioready, olast>>
    /\ UNCHANGED <<mvars, avars, bvars, evars>>

NextAioOld ==
    \/ \E o \in Opaques, f \in BOOLEAN, q \in BOOLEAN :
          old_qemu_aio_set_handler(o, f, q)
    \/ \E o \in Opaques : old_submit(o)
    \/ old_bh_schedule
    \/ \E o \in Opaques : old_io_complete(o)
    \/ \E result \in {"NULL", "done", "not_done"} : old_qemu_aio_wait(result)
    \/ old_wait_step
    \/ old_wait_ioready
    \/ old_qemu_aio_flush
    \/ old_flush_walk

SpecAioOld == InitAio /\ [][NextAioOld]_vars

(***************************************************************************)
(* C31: a call qemu_aio_wait(NULL) that has returned has run the body of   *)
(* its loop exactly once.                                                  *)
(***************************************************************************)
C31_NullWaitIteratesOnce ==
    (olast.returned /\ olast.result = "NULL") => olast.iters = 1


(***************************************************************************)
(* The job with its steps counted and scheduled fairly: an allocation      *)
(* query, a read and a write that were issued complete, and a sleep ends.  *)
(* One of ScanStep, ReadDone, WriteDone and Wake is enabled whenever the    *)
(* job is running, and each of them changes job_turn.  The guest issues at *)
(* most MaxGuestWrites writes, so it stops dirtying the source.            *)
(***************************************************************************)
JobTurn == JobRunning /\ job_turn' = 1 - job_turn

\* the initial states of InitMirror, with the steps of the job counted
InitMirrorFair ==
    /\ disk_sectors \in 0 .. MaxSectors
    /\ alloc \in SUBSET (0 .. (disk_sectors - 1))
    /\ MirrorInit
    /\ job_turn = 0
    /\ AioInit
    /\ flush_pc = "off"
    /\ BufferedInit(1)
    /\ OldAioInit
    /\ EvCounterInit

SpecMirrorFair ==
    /\ InitMirrorFair
    /\ [][NextMirror]_vars
    /\ WF_job_turn(JobTurn)

(***************************************************************************)
(* C32: once cancel has been requested, in whatever phase of the job, the  *)
(* job delivers a completion signal.                                       *)
(***************************************************************************)
C32_CancelLeadsToCompletion == cancelled ~> (completions # << >>)

\* cancel was requested of a synced job with dirty chunks left and a guest
\* write in flight, and the completion signal was delivered
C32_Witness ==
    /\ cancelAt.req
    /\ cancelAt.synced
    /\ cancelAt.cnt > 0
    /\ cancelAt.reqs > 0
    /\ completions # << >>


(***************************************************************************)
(* C33: whenever the length of the source is known, the published progress *)
(* of the job lies between 0 and that length.                              *)
(***************************************************************************)
C33_OffsetInRange == len >= 0 => (0 <= offset /\ offset <= len)


(***************************************************************************)
(* The event counter built on a mutex and a condition variable             *)
(* (qemu-thread.c without CONFIG_FUTEX): waiters take a snapshot with      *)
(* qemu_evcounter_get and wait for the counter to leave it; one signaller  *)
(* increments the counter and broadcasts.  Every statement that touches    *)
(* shared state is one step of its thread.                                 *)
(***************************************************************************)
\* qemu_cond_broadcast without effect: nobody is woken
qemu_cond_broadcast_dropped(blocked) == blocked

\* qemu_cond_broadcast(&evcounter->cond): the threads still blocked after it
qemu_cond_broadcast(blocked) == {}

\* qemu_evcounter_get: "*state = evcounter->ctr", read without the lock
qemu_evcounter_get(w) ==
    /\ wpc[w] = "idle"
    /\ wstate' = [wstate EXCEPT ![w] = ev_ctr]
    /\ ev_hist' = [ev_hist EXCEPT ![w] = [snap |-> ev_ctr,
                                          signalled |-> FALSE,
                                          slept |-> FALSE]]
    /\ wpc' = [wpc EXCEPT ![w] = "lock"]
    /\ UNCHANGED <<ev_ctr, ev_lock, ev_cond, spc>>
    /\ UNCHANGED <<mvars, avars, bvars, ovars>>

\* One step of a waiter inside qemu_evcounter_wait:
\*   "lock"    qemu_mutex_lock, also on the way out of qemu_cond_wait
\*   "check"   "while (*state == evcounter->ctr)": the test, and either the
\*             atomic unlock-and-block of qemu_cond_wait or the way out
\*   "blocked" a broadcast took the thread off the condition variable
\*   "unlock"  qemu_mutex_unlock at the end of the loop
\*   "reload"  "*state = evcounter->ctr" after the unlock; the wait returns
WaiterProgress(w) ==
    /\ \/ /\ wpc[w] = "lock"
          /\ ev_lock = 0
          /\ ev_lock' = w
          /\ wpc' = [wpc EXCEPT ![w] = "check"]
          /\ UNCHANGED <<ev_cond, wstate, ev_hist>>
       \/ /\ wpc[w] = "check"
          /\ wstate[w] = ev_ctr
          /\ ev_cond' = ev_cond \cup {w}
          /\ ev_lock' = 0
          /\ wpc' = [wpc EXCEPT ![w] = "blocked"]
          /\ ev_hist' = [ev_hist EXCEPT ![w].slept = TRUE]
          /\ UNCHANGED wstate
       \/ /\ wpc[w] = "check"
          /\ wstate[w] # ev_ctr
          /\ wpc' = [wpc EXCEPT ![w] = "unlock"]
          /\ UNCHANGED <<ev_cond, ev_lock, wstate, ev_hist>>
       \/ /\ wpc[w] = "blocked"
          /\ w \notin ev_cond
          /\ wpc' = [wpc EXCEPT ![w] = "lock"]
          /\ UNCHANGED <<ev_cond, ev_lock, wstate, ev_hist>>
       \/ /\ wpc[w] = "unlock"
          /\ ev_lock' = 0
          /\ wpc' = [wpc EXCEPT ![w] = "reload"]
          /\ UNCHANGED <<ev_cond, wstate, ev_hist>>
       \/ /\ wpc[w] = "reload"
          /\ wstate' = [wstate EXCEPT ![w] = ev_ctr]
          /\ wpc' = [wpc EXCEPT ![w] = "returned"]
          /\ UNCHANGED <<ev_cond, ev_lock, ev_hist>>
    /\ UNCHANGED <<ev_ctr, spc>>
    /\ UNCHANGED <<mvars, avars, bvars, ovars>>

\* pthread_cond_wait may return without a broadcast
spurious_wakeup(w) ==
    /\ wpc[w] = "blocked"
    /\ w \in ev_cond
    /\ ev_cond' = ev_cond \ {w}
    /\ wpc' = [wpc EXCEPT ![w] = "lock"]
    /\ UNCHANGED <<ev_ctr, ev_lock, wstate, spc, ev_hist>>
    /\ UNCHANGED <<mvars, avars, bvars, ovars>>

\* qemu_evcounter_put: nothing to do without CONFIG_FUTEX
qemu_evcounter_put(w) ==
    /\ wpc[w] = "returned"
    /\ wpc' = [wpc EXCEPT ![w] = "idle"]
    /\ UNCHANGED <<ev_ctr, ev_lock, ev_cond, wstate, spc, ev_hist>>
    /\ UNCHANGED <<mvars, avars, bvars, ovars>>

\* qemu_evcounter_signal is called; the waiters that hold a snapshot and
\* have not returned note that a signal was issued after it
qemu_evcounter_signal ==
    /\ spc = "idle"
    /\ ev_ctr < MaxSignals
    /\ spc' = "lock"
    /\ ev_hist' = [w \in Waiters |->
                     IF wpc[w] \notin {"idle", "returned"}
                     THEN [ev_hist[w] EXCEPT !.signalled = TRUE]
                     ELSE ev_hist[w]]
    /\ UNCHANGED <<ev_ctr, ev_lock, ev_cond, wpc, wstate>>
    /\ UNCHANGED <<mvars, avars, bvars, ovars>>

\* One step of the signaller inside qemu_evcounter_signal:
\* qemu_mutex_lock, "evcounter->ctr++", qemu_cond_broadcast,
\* qemu_mutex_unlock
SignalProgress ==
    /\ \/ /\ spc = "lock"
          /\ ev_lock = 0
          /\ ev_lock' = MaxWaiters + 1
          /\ spc' = "inc"
          /\ UNCHANGED <<ev_ctr, ev_cond>>
       \/ /\ spc = "inc"
          /\ ev_ctr' = ev_ctr + 1
          /\ spc' = "broadcast"
          /\ UNCHANGED <<ev_lock, ev_cond>>
       \/ /\ spc = "broadcast"
          /\ ev_cond' = qemu_cond_broadcast(ev_cond)
          /\ spc' = "unlock"
          /\ UNCHANGED <<ev_ctr, ev_lock>>
       \/ /\ spc = "unlock"
          /\ ev_lock' = 0
          /\ spc' = "idle"
          /\ UNCHANGED <<ev_ctr, ev_cond>>
    /\ UNCHANGED <<wpc, wstate, ev_hist>>
    /\ UNCHANGED <<mvars, avars, bvars, ovars>>

NextEvCounter ==
    \/ \E w \in Waiters : qemu_evcounter_get(w)
    \/ \E w \in Waiters : WaiterProgress(w)
    \/ \E w \in Waiters : spurious_wakeup(w)
    \/ \E w \in Waiters : qemu_evcounter_put(w)
    \/ qemu_evcounter_signal
    \/ SignalProgress

SpecEvCounter == InitAio /\ [][NextEvCounter]_vars

\* a thread inside a call gets the lock when it keeps asking for it, and
\* takes its other steps
SpecEvCounterFair ==
    /\ SpecEvCounter
    /\ \A w \in Waiters : SF_vars(WaiterProgress(w))
    /\ SF_vars(SignalProgress)

(***************************************************************************)
(* C34: a waiter that has left the loop of qemu_evcounter_wait sees a      *)
(* counter different from the snapshot it took with qemu_evcounter_get; a  *)
(* waiter is blocked on the condition variable with the counter already    *)
(* past its snapshot only while the signaller is on its way to the         *)
(* broadcast or the waiter to the lock; and a waiter with a signal issued  *)
(* after its snapshot returns from the wait.                               *)
(***************************************************************************)
C34_NoLostWakeup ==
    /\ [](\A w \in Waiters :
            /\ wpc[w] \in {"unlock", "reload", "returned"} =>
                  ev_ctr # ev_hist[w].snap
            /\ (wpc[w] = "blocked" /\ w \in ev_cond
                    /\ ev_ctr # ev_hist[w].snap) => spc = "broadcast")
    /\ \A w \in Waiters :
          (ev_hist[w].signalled /\ wpc[w] # "idle") ~> (wpc[w] = "returned")

\* a waiter blocked on the condition variable, a signal was issued after
\* its snapshot, and the wait has returned
C34_Witness ==
    \E w \in Waiters :
        /\ wpc[w] = "returned"
        /\ ev_hist[w].slept
        /\ ev_hist[w].signalled

====
